---- MODULE Spec2Model ----
(***************************************************************************)
(* The three workflow simulators of fastapi_signoz_test.simulate           *)
(* (simple.py, medium.py, complex.py) and the request handlers that run    *)
(* them (apiv1/handler.py), as one state machine.                          *)
(*                                                                         *)
(* A Step object is a record of its fields plus the position of its        *)
(* execute() coroutine (pc).  One action is the code an asyncio task runs  *)
(* between two suspension points: calls and returns between a sequential   *)
(* parent and its child happen inside one action, because `await          *)
(* child.execute()` does not yield to the event loop by itself.  The       *)
(* suspension points are `await asyncio.sleep(duration)` and `await        *)
(* asyncio.gather(tasks)`.  Tasks that are runnable at the same instant   *)
(* run in any order (the loop's FIFO order is one of them).  Time is in    *)
(* integer ticks and the code between suspension points takes no time.     *)
(*                                                                         *)
(* A behaviour starts with a request at one of the three endpoints.  Its   *)
(* body is the JSON the endpoint receives: absent, without `steps`, with   *)
(* an empty list, or with a list of step configurations.  HandleRequest    *)
(* builds the tree as execute_*_workflow does, from the configurations or  *)
(* from the default builder, before execute() is entered.                  *)
(***************************************************************************)
EXTENDS Integers, Sequences, FiniteSets, TLC

\* Largest simulated latency (ticks) a duration_range of the model reaches.
MaxDur == 2

\* How often a finished workflow object is executed again.
MaxReruns == 1

\* Python's None for string-valued fields, for numeric fields and for the
\* optional success_rate of MediumStep.
None == "None"
NoTime == -1
NoRate == -1

Variants == {"simple", "medium", "complex"}

VARIABLES
    variant,    \* which simulator module the request runs
    request,    \* the JSON body of the POST
    step,       \* the Step objects of the tree, indexed 1..N
    workflow,   \* the WorkflowSimulator object and the position of execute()
    gather,     \* per parallel step: the future returned by asyncio.gather
    response,   \* what the endpoint answered, code 0 while pending
    hist,       \* observation of the run: calls, draws, status writes, the
                \* failures and raises in time order, and the exception that
                \* left execute_*_workflow
    now         \* the event loop's clock

vars == <<variant, request, step, workflow, gather, response, hist, now>>

(***************************************************************************)
(* Lookup tables and pure helpers                                          *)
(***************************************************************************)

\* _get_success_rate of SimpleStep and Step, in percent.
SimpleSuccessRate(kind) ==
    CASE kind = "database"       -> 95
      [] kind = "http"           -> 85
      [] kind = "queue"          -> 90
      [] kind = "cache"          -> 98
      [] kind = "processing"     -> 92
      [] kind = "validation"     -> 88
      [] kind = "transformation" -> 93
      [] kind = "export"         -> 94
      [] OTHER                   -> 90

\* _get_success_rate of MediumStep, in percent.
MediumTableRate(kind) ==
    CASE kind = "database"       -> 98
      [] kind = "http"           -> 97
      [] kind = "queue"          -> 97
      [] kind = "cache"          -> 99
      [] kind = "processing"     -> 98
      [] kind = "validation"     -> 98
      [] kind = "transformation" -> 97
      [] kind = "export"         -> 97
      [] OTHER                   -> 98

\* `self.success_rate or self._get_success_rate()`: None and 0 are falsy.
MediumSuccessRate(s) ==
    IF s.success_rate # NoRate /\ s.success_rate # 0
    THEN s.success_rate
    ELSE MediumTableRate(s.operation_type)

GetSuccessRate(s) ==
    IF variant = "medium" THEN MediumSuccessRate(s)
    ELSE SimpleSuccessRate(s.operation_type)

\* A test that also lets the draw equal to the rate succeed.
Succeeds_Inclusive(s, r) == r <= GetSuccessRate(s)

\* `if random.random() < self._get_success_rate()` with r the draw, in
\* percent.
Succeeds(s, r) == r < GetSuccessRate(s)

\* str.title() on the kinds that have no curated messages.
Title(kind) ==
    CASE kind = "processing"     -> "Processing"
      [] kind = "validation"     -> "Validation"
      [] kind = "transformation" -> "Transformation"
      [] kind = "export"         -> "Export"
      [] kind = "database"       -> "Database"
      [] kind = "http"           -> "Http"
      [] kind = "queue"          -> "Queue"
      [] kind = "cache"          -> "Cache"
      [] kind = "graphql"        -> "Graphql"
      [] OTHER                   -> kind

\* A fallback message built from the kind as it is, not title-cased.
ErrorMessages_RawKind(kind) ==
    CASE kind = "database" ->
            <<"Database connection timeout", "Deadlock detected",
              "Unique constraint violation">>
      [] kind = "http" ->
            <<"API rate limit exceeded", "External service unavailable",
              "Invalid response format">>
      [] kind = "queue" ->
            <<"Queue full", "Message processing timeout",
              "Consumer disconnected">>
      [] kind = "cache" ->
            <<"Cache eviction", "Key not found", "Cache server unreachable">>
      [] OTHER -> << kind \o " operation failed" >>

\* error_messages.get(operation_type, [f"{title} operation failed"])
ErrorMessages(kind) ==
    CASE kind = "database" ->
            <<"Database connection timeout", "Deadlock detected",
              "Unique constraint violation">>
      [] kind = "http" ->
            <<"API rate limit exceeded", "External service unavailable",
              "Invalid response format">>
      [] kind = "queue" ->
            <<"Queue full", "Message processing timeout",
              "Consumer disconnected">>
      [] kind = "cache" ->
            <<"Cache eviction", "Key not found", "Cache server unreachable">>
      [] OTHER -> << Title(kind) \o " operation failed" >>

\* The values random.random() takes in the model, in percent of [0,1).
RandomDraws == {0, 99}

\* The positions random.uniform takes inside a duration_range: u/MaxDur of
\* the way from the lower to the upper end.
UniformDraws == 0 .. MaxDur

\* random.uniform(a, b) = a + (b - a) * random()
Uniform(range, u) == range[1] + ((range[2] - range[1]) * u) \div MaxDur

\* random.choice(seq) with k the index drawn.
Choice(seq, k) == seq[((k - 1) % Len(seq)) + 1]

ChoiceDraws == 1 .. 3

\* str() of a number: a value that is not the number itself.
Str(x) == <<"str", x>>

IndexOf(seq, x) == CHOOSE i \in DOMAIN seq : seq[i] = x

IsIn(x, seq) == \E i \in DOMAIN seq : seq[i] = x

\* The largest and the smallest member of a non-empty set of numbers.
Max(S) == CHOOSE x \in S : \A y \in S : y <= x

Min(S) == CHOOSE x \in S : \A y \in S : x <= y

\* The step whose substeps list holds n; 0 for a top-level step.
Parent(w, n) ==
    IF \E p \in DOMAIN w.step : IsIn(n, w.step[p].substeps)
    THEN CHOOSE p \in DOMAIN w.step : IsIn(n, w.step[p].substeps)
    ELSE 0

(***************************************************************************)
(* Construction                                                            *)
(***************************************************************************)

\* SimpleStep.__init__ / MediumStep.__init__ / Step.__init__
NewStep(name, kind, range, parallel, substeps, rate) ==
    [ name           |-> name,
      operation_type |-> kind,
      duration_range |-> range,
      parallel       |-> parallel,
      substeps       |-> substeps,
      attributes     |-> [k \in {} |-> None],
      status         |-> None,
      error          |-> None,
      start_time     |-> NoTime,
      end_time       |-> NoTime,
      duration       |-> NoTime,
      success_rate   |-> rate,
      shares         |-> <<>>,
      span           |-> [status |-> "UNSET", attrs |-> [k \in {} |-> None],
                          exception |-> None],
      pc             |-> "idle",
      wake           |-> NoTime,
      drawn          |-> NoTime ]

\* SimpleWorkflowSimulator.__init__ and the add_step calls that follow it.
NewWorkflow(name, top) ==
    [ name              |-> name,
      steps             |-> top,
      status            |-> None,
      error             |-> None,
      start_time        |-> NoTime,
      end_time          |-> NoTime,
      execution_details |-> [k \in {} |-> None],
      span              |-> [status |-> "UNSET", attrs |-> [k \in {} |-> None],
                             exception |-> None],
      pc                |-> "init" ]

\* The default simple workflow: a parallel fetch, a validation, a cache
\* write; the parallel flag of the first step is left open.
FlatTree(par) ==
    [ top   |-> <<1, 2, 3>>,
      steps |-> << NewStep("data_fetching", "processing", <<0, 1>>, par,
                           <<4, 5>>, NoRate),
                   NewStep("validate_data", "validation", <<1, 1>>, FALSE,
                           <<>>, NoRate),
                   NewStep("save_to_cache", "cache", <<1, MaxDur>>, FALSE,
                           <<>>, NoRate),
                   NewStep("fetch_db_data", "database", <<1, MaxDur>>, FALSE,
                           <<>>, NoRate),
                   NewStep("fetch_api_data", "http", <<1, MaxDur>>, FALSE,
                           <<>>, NoRate) >> ]

\* A three-level tree: step 1 has children 3 and 4, step 3 has child 5.
NestedTree(par1, par3) ==
    [ top   |-> <<1, 2>>,
      steps |-> << NewStep("stage", "processing", <<0, 0>>, par1,
                           <<3, 4>>, NoRate),
                   NewStep("store", "database", <<1, 1>>, FALSE,
                           <<>>, NoRate),
                   NewStep("inner", "validation", <<0, 1>>, par3,
                           <<5>>, NoRate),
                   NewStep("fetch", "http", <<1, MaxDur>>, FALSE,
                           <<>>, NoRate),
                   NewStep("read", "queue", <<1, MaxDur>>, FALSE,
                           <<>>, NoRate) >> ]

\* A workflow to which no step was added.
EmptyTree == [ top |-> <<>>, steps |-> <<>> ]

Trees ==
    {FlatTree(par) : par \in BOOLEAN}
      \cup {NestedTree(p1, p3) : p1 \in BOOLEAN, p3 \in BOOLEAN}
      \cup {EmptyTree}

(***************************************************************************)
(* The request and the construction of the tree from it                    *)
(***************************************************************************)

\* [op.value for op in OperationType]
OperationTypes ==
    <<"database", "http", "queue", "cache", "processing", "validation",
      "transformation", "export">>

\* An exception: its class and str() of it; status_code, message and
\* valid_types are the status code and the detail of an HTTPException.
Exc(type, msg) ==
    [ type |-> type, msg |-> msg, status_code |-> 0, message |-> None,
      valid_types |-> <<>> ]

\* No exception was raised.
NoExc == Exc("none", None)

\* Reading attribute attr of an object of class cls that has no such
\* attribute.
AttributeError(cls, attr) ==
    Exc("AttributeError",
        "'" \o cls \o "' object has no attribute '" \o attr \o "'")

\* The HTTPException the `except KeyError` of create_*_step_from_config
\* raises for a config of the given operation_type.
InvalidOperationType(kind) ==
    [ type |-> "HTTPException", msg |-> "400: Invalid operation type: " \o kind,
      status_code |-> 400, message |-> "Invalid operation type: " \o kind,
      valid_types |-> OperationTypes ]

\* One element of the body's `steps` list as the endpoint receives it: the
\* body is declared `dict`, so each element is a plain dict whose keys are
\* those of StepConfig.
JsonStep(name, kind, range, parallel, substeps) ==
    [ type |-> "dict", name |-> name, operation_type |-> kind,
      duration_range |-> range, parallel |-> parallel, substeps |-> substeps,
      attributes |-> [k \in {} |-> None] ]

\* A StepConfig object, the type execute_*_workflow declares for the
\* elements of `steps`; operation_type is a member of OperationType.
StepConfig(name, kind, range, parallel, substeps, attributes) ==
    [ type |-> "StepConfig", name |-> name, operation_type |-> kind,
      duration_range |-> range, parallel |-> parallel, substeps |-> substeps,
      attributes |-> attributes ]

\* POST without a body.
NoBody ==
    [ call |-> "endpoint", present |-> FALSE, name |-> None,
      has_steps |-> FALSE, steps |-> <<>> ]

\* POST with a JSON object that has a "name" and, if has_steps, a "steps" key.
Body(name, has_steps, steps) ==
    [ call |-> "endpoint", present |-> TRUE, name |-> name,
      has_steps |-> has_steps, steps |-> steps ]

\* A well-formed two-level configuration.
ValidSteps ==
    << JsonStep("load", "database", <<0, 1>>, FALSE, <<>>),
       JsonStep("fan_out", "processing", <<0, 0>>, TRUE,
                << JsonStep("call", "http", <<1, 1>>, FALSE, <<>>),
                   JsonStep("push", "queue", <<1, 1>>, FALSE, <<>>) >>) >>

\* The same configuration with a kind outside OperationType at depth two.
InvalidKindSteps ==
    << JsonStep("load", "database", <<0, 1>>, FALSE, <<>>),
       JsonStep("fan_out", "processing", <<0, 0>>, TRUE,
                << JsonStep("call", "graphql", <<1, 1>>, FALSE, <<>>),
                   JsonStep("push", "queue", <<1, 1>>, FALSE, <<>>) >>) >>

Requests ==
    { NoBody,
      Body("custom", FALSE, <<>>),
      Body("custom", TRUE, <<>>),
      Body("custom", TRUE, ValidSteps),
      Body("custom", TRUE, InvalidKindSteps) }

\* The first lines of the three endpoint functions: the name and the steps
\* handed to execute_*_workflow; steps.given is FALSE for None.
HandlerArgs(req) ==
    IF ~req.present
    THEN [ name  |-> variant \o "_workflow",
           steps |-> [given |-> FALSE, list |-> <<>>] ]
    ELSE [ name  |-> req.name,
           steps |-> [given |-> req.has_steps, list |-> req.steps] ]

RECURSIVE CreateStepFromConfig(_, _, _)
RECURSIVE CreateSteps(_, _, _, _)

\* create_simple_step_from_config / create_medium_step_from_config /
\* create_step_from_config.  built holds the Steps made so far; the result
\* adds the Steps made for config, the id of the Step returned, and the
\* exception raised if any.  The keyword arguments are evaluated in order:
\* config.name first, the substeps before the Step itself is made.  path is
\* where config lies in the request (the indices from the top list down):
\* `attributes=config.attributes` followed by `self.attributes = attributes
\* or {}` hands the Step the config's own dict unless that dict is empty.
CreateStepFromConfig(built, config, path) ==
    IF config.type # "StepConfig"
    THEN [steps |-> built, ids |-> <<>>,
          exc |-> AttributeError(config.type, "name")]
    ELSE LET subs == CreateSteps(built, config.substeps, path, 1)
         IN  IF subs.exc.type = "KeyError"
             THEN [subs EXCEPT !.exc = InvalidOperationType(config.operation_type)]
             ELSE IF subs.exc # NoExc THEN subs
             ELSE [steps |-> Append(subs.steps,
                                    [NewStep(config.name, config.operation_type,
                                             config.duration_range, config.parallel,
                                             subs.ids, NoRate)
                                       EXCEPT !.attributes = config.attributes,
                                              !.shares =
                                                  IF DOMAIN config.attributes # {}
                                                  THEN path ELSE <<>>]),
                   ids   |-> <<Len(subs.steps) + 1>>,
                   exc   |-> NoExc]

\* [create_step_from_config(c) for c in configs]: configs is what is left of
\* the list at prefix, its first element being the k-th of that list.
CreateSteps(built, configs, prefix, k) ==
    IF configs = <<>>
    THEN [steps |-> built, ids |-> <<>>, exc |-> NoExc]
    ELSE LET first == CreateStepFromConfig(built, Head(configs),
                                           Append(prefix, k))
         IN  IF first.exc # NoExc THEN first
             ELSE LET rest == CreateSteps(first.steps, Tail(configs), prefix, k + 1)
                  IN  [rest EXCEPT !.ids = first.ids \o @]

\* `if steps`: None and the empty list are both false.
Truthy(steps) == steps.given /\ steps.list # <<>>

\* A setup that runs the default tree when the supplied steps cannot be
\* built.
SetupWorkflow_FallsBackToDefault(steps, default) ==
    [ steps |-> default.steps, top |-> default.top,
      exc   |-> IF Truthy(steps) THEN CreateSteps(<<>>, steps.list, <<>>, 1).exc
                ELSE NoExc,
      used_default |-> TRUE,
      run   |-> TRUE ]

\* execute_*_workflow up to `await workflow.execute()`: the Steps built, the
\* ones added to the workflow, the exception raised, and whether execute()
\* is reached.
SetupWorkflow(steps, default) ==
    IF Truthy(steps)
    THEN LET made == CreateSteps(<<>>, steps.list, <<>>, 1)
         IN  [ steps |-> made.steps,
               top   |-> IF made.exc = NoExc THEN made.ids ELSE <<>>,
               exc   |-> made.exc,
               used_default |-> FALSE,
               run   |-> made.exc = NoExc ]
    ELSE [ steps |-> default.steps, top |-> default.top, exc |-> NoExc,
           used_default |-> TRUE, run |-> TRUE ]

\* A run whose Steps are made by a builder written like
\* create_*_default_workflow (Step objects constructed directly and handed
\* to add_step) that returns tree.
BuilderCall(tree) ==
    [ call |-> "builder", present |-> FALSE, name |-> None,
      has_steps |-> FALSE, steps |-> <<>>, tree |-> tree ]

\* The trees create_*_default_workflow returns in the model: any of Trees for
\* a request without body, the sequential three-level tree for a request
\* with one, and the builder's own tree for a BuilderCall.
DefaultTrees(req) ==
    IF req.call = "builder" THEN {req.tree}
    ELSE IF req.present THEN {NestedTree(FALSE, FALSE)} ELSE Trees

NewHist(n) ==
    [ calls    |-> [i \in 1 .. n |-> 0],
      slept    |-> [i \in 1 .. n |-> FALSE],
      outcome  |-> [i \in 1 .. n |-> "none"],
      draw     |-> [i \in 1 .. n |-> NoRate],
      began    |-> [i \in 1 .. n |-> NoTime],
      ended    |-> [i \in 1 .. n |-> NoTime],
      writes   |-> [i \in 1 .. n |-> 0],
      raised   |-> <<>>,
      failures |-> <<>>,
      escaped  |-> None,
      reruns   |-> 0,
      setup    |-> [done |-> FALSE, used_default |-> FALSE, exc |-> NoExc] ]

\* A request has arrived at one of the three endpoints; no object of the
\* run exists yet.
Init ==
    /\ variant \in Variants
    /\ request \in Requests
    /\ step = <<>>
    /\ workflow = NewWorkflow(None, <<>>)
    /\ gather = <<>>
    /\ hist = NewHist(0)
    /\ response = [code |-> 0, status |-> None, error |-> None, message |-> None,
                   valid_types |-> <<>>]
    /\ now = 0

\* The program state the operators below transform.
World ==
    [ request |-> request, step |-> step, workflow |-> workflow,
      gather |-> gather, response |-> response, hist |-> hist ]

\* The state w becomes the next state; w is evaluated once.
Commit(w) ==
    \E v \in {w} :
        /\ request' = v.request
        /\ step' = v.step
        /\ workflow' = v.workflow
        /\ gather' = v.gather
        /\ response' = v.response
        /\ hist' = v.hist

(***************************************************************************)
(* Step.execute: the parts that differ between the variants                *)
(***************************************************************************)

RECURSIVE SetConfigAttributes(_, _, _)

\* The list of configs with the attributes of the one at path replaced.
SetConfigAttributes(configs, path, attributes) ==
    [configs EXCEPT ![Head(path)] =
        IF Len(path) = 1
        THEN [@ EXCEPT !.attributes = attributes]
        ELSE [@ EXCEPT !.substeps =
                           SetConfigAttributes(@, Tail(path), attributes)]]

\* `self.attributes[key] = value` has been executed by step n: when the dict
\* is the one of the StepConfig the step was built from, config.attributes
\* is that same dict and shows the write.
WriteThrough(w, n) ==
    IF w.step[n].shares = <<>> THEN w
    ELSE [w EXCEPT !.request.steps =
                       SetConfigAttributes(@, w.step[n].shares,
                                           w.step[n].attributes)]

\* SimpleStep._handle_success
SimpleHandleSuccess(w, n) ==
    [w EXCEPT !.step[n].status = "completed",
              !.hist.writes[n] = @ + 1]

\* MediumStep._handle_success
MediumHandleSuccess(w, n) ==
    WriteThrough(
        [w EXCEPT !.step[n].status = "completed",
                  !.hist.writes[n] = @ + 1,
                  !.step[n].attributes =
                      ("duration" :> Str(w.step[n].duration))
                        @@ ("operation_success" :> "true") @@ @],
        n)

\* Step._handle_success
ComplexHandleSuccess(w, n) ==
    [w EXCEPT !.step[n].status = "completed",
              !.hist.writes[n] = @ + 1,
              !.step[n].span.status = "OK",
              !.step[n].span.attrs = ("step.status" :> "completed") @@ @]

HandleSuccess(w, n) ==
    CASE variant = "simple"  -> SimpleHandleSuccess(w, n)
      [] variant = "medium"  -> MediumHandleSuccess(w, n)
      [] variant = "complex" -> ComplexHandleSuccess(w, n)

\* SimpleStep._handle_failure up to its raise; msg is the message chosen.
SimpleHandleFailure(w, n, msg) ==
    [w EXCEPT !.step[n].status = "failed",
              !.hist.writes[n] = @ + 1,
              !.step[n].error = msg]

\* A _handle_failure that sets status and error and records no attributes.
MediumHandleFailure_NoAttributes(w, n, msg) ==
    [w EXCEPT !.step[n].status = "failed",
              !.hist.writes[n] = @ + 1,
              !.step[n].error = msg]

\* MediumStep._handle_failure up to its raise.
MediumHandleFailure(w, n, msg) ==
    WriteThrough(
        [w EXCEPT !.step[n].status = "failed",
                  !.hist.writes[n] = @ + 1,
                  !.step[n].error = msg,
                  !.step[n].attributes =
                      ("error_type" :> w.step[n].operation_type)
                        @@ ("error_message" :> msg)
                        @@ ("operation_success" :> "false") @@ @],
        n)

\* Step._handle_failure up to its raise.
ComplexHandleFailure(w, n, msg) ==
    [w EXCEPT !.step[n].status = "failed",
              !.hist.writes[n] = @ + 1,
              !.step[n].error = msg,
              !.step[n].span.status = "ERROR",
              !.step[n].span.attrs =
                  ("step.status" :> "failed") @@ ("step.error" :> msg) @@ @]

HandleFailure(w, n, msg) ==
    CASE variant = "simple"  -> SimpleHandleFailure(w, n, msg)
      [] variant = "medium"  -> MediumHandleFailure(w, n, msg)
      [] variant = "complex" -> ComplexHandleFailure(w, n, msg)

\* `except Exception as e` of SimpleStep.execute, before the re-raise.
SimpleStepExcept(w, n, e) ==
    [w EXCEPT !.step[n].status = "failed",
              !.hist.writes[n] = @ + 1,
              !.step[n].error = e]

\* An `except` that records the error and leaves the status as it is.
MediumStepExcept_ErrorOnly(w, n, e) ==
    [w EXCEPT !.step[n].error = e]

\* `except Exception as e` of MediumStep.execute, before the re-raise.
MediumStepExcept(w, n, e) ==
    [w EXCEPT !.step[n].status = "failed",
              !.hist.writes[n] = @ + 1,
              !.step[n].error = e]

\* `except Exception as e` of Step.execute: the span records the exception
\* and, on leaving the `with` block, takes the ERROR status; the Step's own
\* status and error are not written.
ComplexStepExcept(w, n, e) ==
    [w EXCEPT !.step[n].span.exception = e,
              !.step[n].span.status = "ERROR"]

StepExcept(w, n, e) ==
    CASE variant = "simple"  -> SimpleStepExcept(w, n, e)
      [] variant = "medium"  -> MediumStepExcept(w, n, e)
      [] variant = "complex" -> ComplexStepExcept(w, n, e)

\* Step._add_operation_attributes: the attributes it sets that are not
\* drawn at random (the drawn ones are written to the span and never read).
AddOperationAttributes(w, n) ==
    LET kind == w.step[n].operation_type
        attrs == CASE kind = "database" ->
                        ("db.system" :> "postgresql") @@ ("db.name" :> "products_db")
                   [] kind = "http" ->
                        ("http.url" :> "https://api.example.com/v1/" \o w.step[n].name)
                   [] kind = "queue" ->
                        ("messaging.system" :> "rabbitmq")
                          @@ ("messaging.destination" :> "queue." \o w.step[n].name)
                   [] kind = "cache" -> ("cache.system" :> "redis")
                   [] OTHER -> [k \in {} |-> None]
    IN  [w EXCEPT !.step[n].span.attrs = attrs @@ @]

\* The step leaves execute(): `finally` of MediumStep.execute sets end_time.
LeaveStep(w, n, how) ==
    [w EXCEPT !.step[n].pc = how,
              !.step[n].end_time = IF variant = "medium" THEN now ELSE @,
              !.hist.ended[n] = now]

\* A sleep that blocks the event loop (time.sleep): the sleeps of the tasks
\* follow one another, each starting when the one before it is over.
SimulateWork_Blocking(w, n, u) ==
    LET d == Uniform(w.step[n].duration_range, u)
        busy == {w.step[m].wake :
                    m \in {k \in DOMAIN w.step : w.step[k].pc = "sleeping"}}
    IN  [w EXCEPT !.step[n].pc = "sleeping",
                  !.step[n].drawn = d,
                  !.step[n].wake = Max(busy \cup {now}) + d,
                  !.hist.slept[n] = TRUE]

\* `duration = random.uniform(...)`, `await asyncio.sleep(duration)`: the
\* coroutine is suspended until now + duration.
SimulateWork(w, n, u) ==
    LET d == Uniform(w.step[n].duration_range, u)
    IN  [w EXCEPT !.step[n].pc = "sleeping",
                  !.step[n].drawn = d,
                  !.step[n].wake = now + d,
                  !.hist.slept[n] = TRUE]

(***************************************************************************)
(* asyncio.gather(tasks), return_exceptions=False                          *)
(***************************************************************************)

\* gather wraps each child coroutine in a task and returns a pending future;
\* the parent awaits it.
GatherStart(w, p) ==
    [w EXCEPT !.step = [m \in DOMAIN @ |->
                          IF IsIn(m, w.step[p].substeps)
                          THEN [@[m] EXCEPT !.pc = "scheduled"]
                          ELSE IF m = p THEN [@[m] EXCEPT !.pc = "gather"]
                          ELSE @[m]],
              !.gather[p] = [state |-> "pending", exc |-> None]]

\* A gather whose future is resolved only by children that return: an
\* exception of a child is dropped and the parent keeps waiting.
GatherChildDone_DropsException(w, p, e) ==
    LET subs == w.step[p].substeps
        allDone == \A i \in DOMAIN subs :
                      w.step[subs[i]].pc \in {"returned", "raised"}
    IN  IF w.gather[p].state # "pending" THEN w
        ELSE IF e = None /\ allDone
             THEN [w EXCEPT !.gather[p].state = "ok"]
        ELSE w

\* A gather whose future is resolved by the first child that returns.
GatherChildDone_FirstCompleted(w, p, e) ==
    IF w.gather[p].state # "pending" THEN w
    ELSE IF e # None
         THEN [w EXCEPT !.gather[p] = [state |-> "exc", exc |-> e]]
    ELSE [w EXCEPT !.gather[p].state = "ok"]

\* A gather that cancels the children still running when the first exception
\* resolves its future.
GatherChildDone_CancelsSiblings(w, p, e) ==
    LET subs == w.step[p].substeps
        allDone == \A i \in DOMAIN subs :
                      w.step[subs[i]].pc \in {"returned", "raised"}
    IN  IF w.gather[p].state # "pending" THEN w
        ELSE IF e # None
             THEN [w EXCEPT !.gather[p] = [state |-> "exc", exc |-> e],
                            !.step = [m \in DOMAIN @ |->
                                        IF IsIn(m, subs)
                                           /\ @[m].pc \in {"scheduled", "sleeping"}
                                        THEN [@[m] EXCEPT !.pc = "raised"]
                                        ELSE @[m]]]
        ELSE IF allDone
             THEN [w EXCEPT !.gather[p].state = "ok"]
        ELSE w

\* A gather that hands the parent the exception of the child that failed
\* last before the parent resumed.
GatherChildDone_LastException(w, p, e) ==
    LET subs == w.step[p].substeps
        allDone == \A i \in DOMAIN subs :
                      w.step[subs[i]].pc \in {"returned", "raised"}
    IN  IF w.gather[p].state = "ok" \/ w.step[p].pc # "gather" THEN w
        ELSE IF e # None
             THEN [w EXCEPT !.gather[p] = [state |-> "exc", exc |-> e]]
        ELSE IF allDone /\ w.gather[p].state = "pending"
             THEN [w EXCEPT !.gather[p].state = "ok"]
        ELSE w

\* A gather whose done-callback, after the future is resolved, still reports
\* a later exception of a child to the parent step.
GatherChildDone_LateFailureReported(w, p, e) ==
    LET subs == w.step[p].substeps
        allDone == \A i \in DOMAIN subs :
                      w.step[subs[i]].pc \in {"returned", "raised"}
    IN  IF w.gather[p].state # "pending"
        THEN IF e # None
             THEN [w EXCEPT !.step[p].status = "failed", !.step[p].error = e]
             ELSE w
        ELSE IF e # None
             THEN [w EXCEPT !.gather[p] = [state |-> "exc", exc |-> e]]
        ELSE IF allDone
             THEN [w EXCEPT !.gather[p].state = "ok"]
        ELSE w

\* gather's done-callback for one child task; e is the child's exception or
\* None.  The first exception resolves the future; later results and
\* exceptions of the other children are dropped; the children are not
\* cancelled.
GatherChildDone(w, p, e) ==
    LET subs == w.step[p].substeps
        allDone == \A i \in DOMAIN subs :
                      w.step[subs[i]].pc \in {"returned", "raised"}
    IN  IF w.gather[p].state # "pending" THEN w
        ELSE IF e # None
             THEN [w EXCEPT !.gather[p] = [state |-> "exc", exc |-> e]]
        ELSE IF allDone
             THEN [w EXCEPT !.gather[p].state = "ok"]
        ELSE w

(***************************************************************************)
(* WorkflowSimulator.execute and the code that calls it                    *)
(***************************************************************************)

\* SimpleWorkflowSimulator.execute after its loop: `self.status = "completed"`
SimpleWorkflowComplete(w) ==
    [w EXCEPT !.workflow.status = "completed",
              !.workflow.pc = "returned"]

\* WorkflowSimulator.execute after its loop.
ComplexWorkflowComplete(w) ==
    [w EXCEPT !.workflow.status = "completed",
              !.workflow.span.status = "OK",
              !.workflow.span.attrs = ("workflow.status" :> "completed") @@ @,
              !.workflow.pc = "returned"]

\* MediumWorkflowSimulator.execute after its loop: completed unless a step
\* marked the run failed, then the `finally` block.
MediumWorkflowComplete(w) ==
    [w EXCEPT !.workflow.status = IF @ = None THEN "completed" ELSE @,
              !.workflow.end_time = now,
              !.workflow.execution_details =
                  ("total_duration" :> Str(now - w.workflow.start_time)) @@ @,
              !.workflow.pc = "returned"]

WorkflowComplete(w) ==
    CASE variant = "simple"  -> SimpleWorkflowComplete(w)
      [] variant = "medium"  -> MediumWorkflowComplete(w)
      [] variant = "complex" -> ComplexWorkflowComplete(w)

\* SimpleWorkflowExcept without `self.status = "failed"`.
SimpleWorkflowExcept_NoStatus(w, e) ==
    [w EXCEPT !.workflow.error = e,
              !.workflow.pc = "raised"]

\* SimpleWorkflowExcept with the exception swallowed: execute() returns the
\* failed workflow instead of raising.
SimpleWorkflowExcept_Returns(w, e) ==
    [w EXCEPT !.workflow.status = "failed",
              !.workflow.error = e,
              !.workflow.pc = "returned"]

\* `except Exception as e` of SimpleWorkflowSimulator.execute.
SimpleWorkflowExcept(w, e) ==
    [w EXCEPT !.workflow.status = "failed",
              !.workflow.error = e,
              !.workflow.pc = "raised"]

\* `except Exception as e` of WorkflowSimulator.execute.
ComplexWorkflowExcept(w, e) ==
    [w EXCEPT !.workflow.status = "failed",
              !.workflow.error = e,
              !.workflow.span.status = "ERROR",
              !.workflow.span.attrs =
                  ("workflow.status" :> "failed") @@ ("workflow.error" :> e) @@ @,
              !.workflow.span.exception = e,
              !.workflow.pc = "raised"]

\* The inner `try` of MediumWorkflowSimulator.execute when the step returned.
MediumStepSucceeded(w, n) ==
    LET s == w.step[n]
    IN  [w EXCEPT !.workflow.execution_details =
            (s.name :> [ status     |-> s.status,
                         duration   |-> IF s.duration # NoTime
                                        THEN Str(s.duration) ELSE <<None>>,
                         start_time |-> Str(s.start_time),
                         end_time   |-> Str(s.end_time) ]) @@ @]

\* MediumStepFailed that records the details without marking the run.
MediumStepFailed_RunNotMarked(w, n, e) ==
    LET s == w.step[n]
    IN  [w EXCEPT !.workflow.execution_details =
                      (s.name :> [ status     |-> "failed",
                                   error      |-> e,
                                   duration   |-> IF s.duration # NoTime
                                                  THEN Str(s.duration) ELSE <<None>>,
                                   start_time |-> Str(s.start_time),
                                   end_time   |-> Str(s.end_time) ]) @@ @]

\* The inner `except Exception as e` of MediumWorkflowSimulator.execute.
MediumStepFailed(w, n, e) ==
    LET s == w.step[n]
    IN  [w EXCEPT !.workflow.status = "failed",
                  !.workflow.error = e,
                  !.workflow.execution_details =
                      (s.name :> [ status     |-> "failed",
                                   error      |-> e,
                                   duration   |-> IF s.duration # NoTime
                                                  THEN Str(s.duration) ELSE <<None>>,
                                   start_time |-> Str(s.start_time),
                                   end_time   |-> Str(s.end_time) ]) @@ @]

\* Every variant goes on after a failed top-level step.
ContinuesAfterFailure_Always == TRUE

\* No variant goes on after a failed top-level step.
ContinuesAfterFailure_Never == FALSE

\* Whether execute() goes on with the next top-level step after one raised:
\* only MediumWorkflowSimulator wraps each step in its own try/except.
ContinuesAfterFailure == variant = "medium"

\* A MediumStep that, like the medium run, goes on with the next child after
\* one of its sequential children raised.
ContinuesInsideStep_Medium == variant = "medium"

\* Whether execute() of a step goes on with the next child after one of its
\* sequential children raised: `for step in self.substeps: await
\* step.execute()` has no try/except of its own in any variant.
ContinuesInsideStep == FALSE

\* A simple endpoint that answers 200 with the run's status and the error
\* text when an exception reaches it.
SimpleHandler_AnswersOk(w, e) ==
    [w EXCEPT !.response = [code |-> 200, status |-> w.workflow.status,
                            error |-> e, message |-> None,
                            valid_types |-> <<>>]]

\* create_and_execute_simple_workflow around execute_simple_workflow; e is
\* the exception that left workflow.execute(), or None.
SimpleHandler(w, e) ==
    IF e = None
    THEN [w EXCEPT !.response = [code |-> 200, status |-> w.workflow.status,
                                 error |-> None, message |-> None,
                                 valid_types |-> <<>>]]
    ELSE [w EXCEPT !.response = [code |-> 500, status |-> None, error |-> e,
                                 message |-> "Simple workflow execution failed",
                                 valid_types |-> <<>>],
                   !.hist.escaped = e]

\* An execute_medium_workflow without its `except`: the exception reaches
\* the endpoint function, which answers 500.
MediumHandler_NoExcept(w, e) ==
    IF e = None
    THEN [w EXCEPT !.response = [code |-> 200, status |-> w.workflow.status,
                                 error |-> w.workflow.error, message |-> None,
                                 valid_types |-> <<>>]]
    ELSE [w EXCEPT !.response = [code |-> 500, status |-> None, error |-> e,
                                 message |-> "Medium workflow execution failed",
                                 valid_types |-> <<>>],
                   !.hist.escaped = e]

\* create_and_execute_medium_workflow around execute_medium_workflow, whose
\* own `except` turns an escaping exception into a failed workflow.
MediumHandler(w, e) ==
    LET w1 == IF e = None THEN w
              ELSE [w EXCEPT !.workflow.status = "failed",
                             !.workflow.error =
                                 "Workflow initialization failed: " \o e]
    IN  [w1 EXCEPT !.response = [code |-> 200, status |-> w1.workflow.status,
                                 error |-> w1.workflow.error, message |-> None,
                                 valid_types |-> <<>>]]

\* A complex endpoint that answers with the status and error of the run.
ComplexHandler_ReportsRunStatus(w, e) ==
    [w EXCEPT !.response = [code |-> 200, status |-> w.workflow.status,
                            error |-> w.workflow.error, message |-> None,
                            valid_types |-> <<>>]]

\* A complex endpoint that answers an exception as the simple one does, with
\* status 500 and a body of `message` and `error`.
ComplexHandler_AnswersError(w, e) ==
    IF e = None
    THEN [w EXCEPT !.response = [code |-> 200, status |-> "completed",
                                 error |-> None, message |-> None,
                                 valid_types |-> <<>>]]
    ELSE [w EXCEPT !.response = [code |-> 500, status |-> None, error |-> e,
                                 message |-> "Complex workflow execution failed",
                                 valid_types |-> <<>>],
                   !.hist.escaped = e]

\* create_and_execute_complex_workflow around execute_workflow.
ComplexHandler(w, e) ==
    IF e = None
    THEN [w EXCEPT !.response = [code |-> 200, status |-> "completed",
                                 error |-> None, message |-> None,
                                 valid_types |-> <<>>]]
    ELSE [w EXCEPT !.response = [code |-> 200, status |-> "completed",
                                 error |-> "Error handled for demo: " \o e,
                                 message |-> None,
                                 valid_types |-> <<>>],
                   !.hist.escaped = e]

Handler(w, e) ==
    CASE variant = "simple"  -> SimpleHandler(w, e)
      [] variant = "medium"  -> MediumHandler(w, e)
      [] variant = "complex" -> ComplexHandler(w, e)

\* Exception x, raised while the tree was set up, reaches the code around
\* the setup: the `except` of execute_medium_workflow, the `except
\* HTTPException: raise` and `except Exception` of the endpoints.
HandlerOnSetupError(w, x) ==
    CASE variant = "simple"  ->
            IF x.type = "HTTPException"
            THEN [w EXCEPT !.response = [code |-> x.status_code, status |-> None,
                                         error |-> None, message |-> x.message,
                                         valid_types |-> x.valid_types],
                           !.hist.escaped = x.msg]
            ELSE SimpleHandler(w, x.msg)
      [] variant = "medium"  -> MediumHandler(w, x.msg)
      [] variant = "complex" -> ComplexHandler(w, x.msg)

(***************************************************************************)
(* Control flow of execute(): what one task runs until it suspends.  u is  *)
(* the position random.uniform draws for the step that starts to sleep.    *)
(***************************************************************************)

RECURSIVE EnterStep(_, _, _)
RECURSIVE RunFrom(_, _, _)
RECURSIVE ReturnFrom(_, _, _)
RECURSIVE RaiseFrom(_, _, _, _)

\* execute() of step n is entered: a parallel step hands its children to
\* gather and waits, a sequential one calls its first child, a leaf sleeps.
EnterStep(w, n, u) ==
    LET s  == w.step[n]
        w1 == [w EXCEPT !.step[n].start_time =
                            IF variant = "medium" THEN now ELSE @,
                        !.hist.calls[n] = @ + 1,
                        !.hist.began[n] = now]
    IN  IF s.substeps # <<>>
        THEN IF s.parallel
             THEN GatherStart(w1, n)
             ELSE EnterStep([w1 EXCEPT !.step[n].pc = "substeps"],
                            s.substeps[1], u)
        ELSE SimulateWork(w1, n, u)

\* The `for step in self.steps` loop of the workflow reaches index i.
RunFrom(w, i, u) ==
    IF i <= Len(w.workflow.steps)
    THEN EnterStep(w, w.workflow.steps[i], u)
    ELSE Handler(WorkflowComplete(w), None)

\* execute() of step n returns to whoever awaited it.
ReturnFrom(w, n, u) ==
    LET w1 == LeaveStep(w, n, "returned")
        p  == Parent(w, n)
    IN  IF p = 0
        THEN RunFrom(IF variant = "medium" THEN MediumStepSucceeded(w1, n) ELSE w1,
                     IndexOf(w.workflow.steps, n) + 1, u)
        ELSE IF w.step[p].parallel
        THEN GatherChildDone(w1, p, None)
        ELSE LET subs == w.step[p].substeps
                 i    == IndexOf(subs, n)
             IN  IF i < Len(subs)
                 THEN EnterStep(w1, subs[i + 1], u)
                 ELSE SimulateWork(w1, p, u)

\* Exception e leaves execute() of step n, after n's own `except` ran.
RaiseFrom(w, n, e, u) ==
    LET w1 == [LeaveStep(w, n, "raised") EXCEPT
                  !.hist.raised = Append(@, [step |-> n, msg |-> e])]
        p  == Parent(w, n)
    IN  IF p = 0
        THEN IF ContinuesAfterFailure
             THEN RunFrom(MediumStepFailed(w1, n, e),
                          IndexOf(w.workflow.steps, n) + 1, u)
             ELSE Handler(IF variant = "complex"
                          THEN ComplexWorkflowExcept(w1, e)
                          ELSE SimpleWorkflowExcept(w1, e), e)
        ELSE IF w.step[p].parallel
        THEN GatherChildDone(w1, p, e)
        ELSE IF ContinuesInsideStep
        THEN LET subs == w.step[p].substeps
                 i    == IndexOf(subs, n)
             IN  IF i < Len(subs)
                 THEN EnterStep(w1, subs[i + 1], u)
                 ELSE SimulateWork(w1, p, u)
        ELSE RaiseFrom(StepExcept(w1, p, e), p, e, u)

(***************************************************************************)
(* Actions                                                                 *)
(***************************************************************************)

\* The endpoint is called: execute_*_workflow makes the workflow object and
\* sets up its steps (t is the tree the default builder returns); then
\* execute() runs until the first suspension, or the exception of the setup
\* is answered.
HandleRequest ==
    /\ workflow.pc = "init"
    /\ \E t \in DefaultTrees(request), u \in UniformDraws :
          LET args  == HandlerArgs(request)
              setup == SetupWorkflow(args.steps, t)
              w0 == [ request  |-> request,
                      step     |-> setup.steps,
                      workflow |-> NewWorkflow(args.name, setup.top),
                      gather   |-> [i \in DOMAIN setup.steps |->
                                       [state |-> "none", exc |-> None]],
                      response |-> response,
                      hist     |-> [NewHist(Len(setup.steps)) EXCEPT
                                       !.setup = [done |-> TRUE,
                                                  used_default |-> setup.used_default,
                                                  exc |-> setup.exc]] ]
          IN  IF setup.run
              THEN Commit(RunFrom([w0 EXCEPT !.workflow.pc = "running",
                                             !.workflow.start_time =
                                                 IF variant = "medium" THEN now ELSE @],
                                  1, u))
              ELSE Commit(HandlerOnSetupError([w0 EXCEPT !.workflow.pc = "aborted"],
                                              setup.exc))
    /\ UNCHANGED <<variant, now>>

\* The task gather made for child n starts running n.execute().
TaskStart(n) ==
    /\ n \in DOMAIN step
    /\ step[n].pc = "scheduled"
    /\ \E u \in UniformDraws : Commit(EnterStep(World, n, u))
    /\ UNCHANGED <<variant, now>>

\* What the task of step n runs when its sleep is over (w is the state it
\* runs in): the outcome is drawn
\* (r), on failure a message is chosen (k), and control goes back up the
\* call chain until the next suspension.
AfterSleep(w, n, r, k, u) ==
    LET s   == w.step[n]
        w0  == [w EXCEPT !.step[n].duration =
                                 IF variant = "medium" THEN s.drawn ELSE @,
                             !.hist.draw[n] = r]
        w1  == IF variant = "complex" THEN AddOperationAttributes(w0, n) ELSE w0
        msg == Choice(ErrorMessages(s.operation_type), k)
    IN  IF Succeeds(s, r)
        THEN ReturnFrom(
                HandleSuccess([w1 EXCEPT !.hist.outcome[n] = "success"], n),
                n, u)
        ELSE RaiseFrom(
                StepExcept(
                  HandleFailure(
                    [w1 EXCEPT !.hist.outcome[n] = "failure",
                               !.hist.failures =
                                   Append(@, [step |-> n, msg |-> msg])],
                    n, msg),
                  n, msg),
                n, msg, u)

\* The sleep of step n is over and its task goes on.
Wake(n) ==
    /\ n \in DOMAIN step
    /\ step[n].pc = "sleeping"
    /\ step[n].wake <= now
    /\ \E r \in RandomDraws, k \in ChoiceDraws, u \in UniformDraws :
          Commit(AfterSleep(World, n, r, k, u))
    /\ UNCHANGED <<variant, now>>

\* The gather future awaited by parallel step p is resolved: p goes on to
\* its own work, or the exception is raised inside p.
GatherResume(p) ==
    /\ p \in DOMAIN step
    /\ step[p].pc = "gather"
    /\ gather[p].state \in {"ok", "exc"}
    /\ \E u \in UniformDraws :
          IF gather[p].state = "ok"
          THEN Commit(SimulateWork(World, p, u))
          ELSE Commit(RaiseFrom(StepExcept(World, p, gather[p].exc), p,
                                gather[p].exc, u))
    /\ UNCHANGED <<variant, now>>

\* Some task can run without the clock moving.
Runnable ==
    \/ workflow.pc = "init"
    \/ \E n \in DOMAIN step :
          \/ step[n].pc = "scheduled"
          \/ step[n].pc = "sleeping" /\ step[n].wake <= now
          \/ step[n].pc = "gather" /\ gather[n].state \in {"ok", "exc"}

\* Nothing is runnable: the loop waits for the earliest timer.
Tick ==
    /\ ~Runnable
    /\ \E n \in DOMAIN step : step[n].pc = "sleeping"
    /\ now' = CHOOSE t \in {step[n].wake : n \in {m \in DOMAIN step : step[m].pc = "sleeping"}} :
                 \A m \in DOMAIN step : step[m].pc = "sleeping" => t <= step[m].wake
    /\ UNCHANGED <<variant, request, step, workflow, gather, response, hist>>

Next ==
    \/ HandleRequest
    \/ \E n \in DOMAIN step : TaskStart(n)
    \/ \E n \in DOMAIN step : Wake(n)
    \/ \E p \in DOMAIN step : GatherResume(p)
    \/ Tick

Spec == Init /\ [][Next]_vars

\* The event loop keeps running: while a task is runnable or a timer is
\* pending, one of them is eventually served.
FairSpec == Spec /\ WF_vars(Next)

TypeOK ==
    /\ variant \in Variants
    /\ request \in Requests
    /\ \A n \in DOMAIN step :
          /\ step[n].pc \in {"idle", "scheduled", "substeps", "gather",
                             "sleeping", "returned", "raised"}
          /\ step[n].status \in {None, "completed", "failed"}
    /\ workflow.pc \in {"init", "running", "returned", "raised", "aborted"}
    /\ workflow.status \in {None, "completed", "failed"}
    /\ now \in 0 .. 100

(***************************************************************************)
(* The outcome of one step as a function of its kind, its success_rate and *)
(* its draw: small trees run under every value of random.random()          *)
(***************************************************************************)

\* Every value of random.random(), in percent of [0,1).
AllDraws == 0 .. 99

\* The kinds of OperationType and one kind outside it.
Kinds ==
    {"database", "http", "queue", "cache", "processing", "validation",
     "transformation", "export", "graphql"}

\* The success_rate arguments of MediumStep, in percent: absent, and values
\* from 0.0 to 1.0.
SuccessRates == {NoRate, 0, 1, 50, 99, 100}

\* One Step of the given kind that does not sleep.
LeafTree(kind, rate) ==
    [ top   |-> <<1>>,
      steps |-> << NewStep("only", kind, <<0, 0>>, FALSE, <<>>, rate) >> ]

\* A Step with one child.
ChainTree ==
    [ top   |-> <<1>>,
      steps |-> << NewStep("outer", "validation", <<0, 0>>, FALSE, <<2>>, NoRate),
                   NewStep("inner", "export", <<0, 0>>, FALSE, <<>>, NoRate) >> ]

\* SimpleStep and Step take no success_rate.
StepTrees ==
    {LeafTree(kind, NoRate) : kind \in Kinds} \cup {ChainTree}
      \cup (IF variant = "medium"
            THEN {LeafTree(kind, rate) : kind \in Kinds, rate \in SuccessRates}
            ELSE {})

StepInit ==
    /\ variant \in Variants
    /\ request \in {BuilderCall(t) : t \in StepTrees}
    /\ step = <<>>
    /\ workflow = NewWorkflow(None, <<>>)
    /\ gather = <<>>
    /\ hist = NewHist(0)
    /\ response = [code |-> 0, status |-> None, error |-> None, message |-> None,
                   valid_types |-> <<>>]
    /\ now = 0

\* Wake(n) under every draw.
WakeAnyDraw(n) ==
    /\ n \in DOMAIN step
    /\ step[n].pc = "sleeping"
    /\ step[n].wake <= now
    /\ \E r \in AllDraws, k \in ChoiceDraws, u \in UniformDraws :
          Commit(AfterSleep(World, n, r, k, u))
    /\ UNCHANGED <<variant, now>>

StepNext ==
    \/ HandleRequest
    \/ \E n \in DOMAIN step : WakeAnyDraw(n)

StepSpec == StepInit /\ [][StepNext]_vars

(***************************************************************************)
(* execute_*_workflow called with StepConfig objects, the type its         *)
(* signature declares for `steps`                                          *)
(***************************************************************************)

NoAttributes == [k \in {} |-> None]

\* A two-level configuration; two of its nodes carry attributes.
ConfigSteps ==
    << StepConfig("load", "database", <<0, 1>>, FALSE, <<>>,
                  ("table" :> "users")),
       StepConfig("fan_out", "processing", <<0, 0>>, TRUE,
                  << StepConfig("call", "http", <<1, 1>>, FALSE, <<>>,
                                ("retries" :> "3")),
                     StepConfig("push", "queue", <<1, MaxDur>>, FALSE, <<>>,
                                NoAttributes) >>,
                  NoAttributes) >>

\* The same tree, sequential and without attributes.
PlainConfigSteps ==
    << StepConfig("load", "database", <<0, 1>>, FALSE, <<>>, NoAttributes),
       StepConfig("fan_out", "processing", <<0, 0>>, FALSE,
                  << StepConfig("call", "http", <<1, 1>>, FALSE, <<>>,
                                NoAttributes),
                     StepConfig("push", "queue", <<1, MaxDur>>, FALSE, <<>>,
                                NoAttributes) >>,
                  NoAttributes) >>

\* execute_*_workflow(name, steps) with a list of StepConfig objects.
DirectCall(name, steps) ==
    [ call |-> "direct", present |-> TRUE, name |-> name,
      has_steps |-> TRUE, steps |-> steps ]

\* duration_range is declared Tuple[float, float] with no validator: a
\* reversed pair and a negative pair are accepted as they are.
ReversedRange == <<2, 1>>

NegativeRange == <<-2, -2>>

RangeConfigSteps ==
    << StepConfig("late", "cache", ReversedRange, FALSE, <<>>, NoAttributes),
       StepConfig("early", "export", NegativeRange, FALSE, <<>>, NoAttributes) >>

\* `name` is a plain `str`: two steps may carry the same name, and any
\* string is a name.
NameConfigSteps ==
    << StepConfig("sync", "cache", <<0, 1>>, FALSE, <<>>, NoAttributes),
       StepConfig("sync", "export", <<1, 1>>, FALSE, <<>>, NoAttributes),
       StepConfig("total_duration", "validation", <<0, 0>>, FALSE, <<>>,
                  NoAttributes) >>

DirectRequests ==
    { DirectCall("direct", ConfigSteps), DirectCall("direct", PlainConfigSteps),
      DirectCall("direct", RangeConfigSteps), DirectCall("direct", NameConfigSteps) }

DirectInit ==
    /\ variant \in Variants
    /\ request \in DirectRequests
    /\ step = <<>>
    /\ workflow = NewWorkflow(None, <<>>)
    /\ gather = <<>>
    /\ hist = NewHist(0)
    /\ response = [code |-> 0, status |-> None, error |-> None, message |-> None,
                   valid_types |-> <<>>]
    /\ now = 0

DirectSpec == DirectInit /\ [][Next]_vars

(***************************************************************************)
(* Vocabulary of the properties                                            *)
(***************************************************************************)

Finished == workflow.pc \in {"returned", "raised"}

Started(n) == hist.calls[n] > 0

\* execute() of n was entered and has not yet returned or raised.
InProgress(n) == step[n].pc \in {"substeps", "gather", "sleeping"}

Resolved(n) == step[n].pc \in {"returned", "raised"}

RECURSIVE Subtree(_)
Subtree(n) ==
    {n} \cup UNION {Subtree(step[n].substeps[i]) : i \in DOMAIN step[n].substeps}

SubtreeInProgress(n) == \E m \in Subtree(n) : InProgress(m)

\* The lists whose members the code runs one after the other: the
\* workflow's steps and the substeps of every non-parallel step.
SequentialLists ==
    {workflow.steps} \cup
    {step[p].substeps : p \in {q \in DOMAIN step : ~step[q].parallel}}

HasSubsteps(p) == step[p].substeps # <<>>

Children(p) == {step[p].substeps[i] : i \in DOMAIN step[p].substeps}

(***************************************************************************)
(* Two requests handled concurrently by the same event loop.  The Step     *)
(* objects of both live in one heap (step, gather and hist are indexed by  *)
(* object); workflow, response and request hold one entry per request.     *)
(***************************************************************************)

PairRequests == {1, 2}

\* The tree the default builder returns here: a parallel step with two
\* children.
PairTree ==
    [ top   |-> <<1>>,
      steps |-> << NewStep("fetch_all", "processing", <<0, 0>>, TRUE,
                           <<2, 3>>, NoRate),
                   NewStep("check_input", "validation", <<1, 1>>, FALSE,
                           <<>>, NoRate),
                   NewStep("write_report", "export", <<2, 2>>, FALSE,
                           <<>>, NoRate) >> ]

\* A builder that keeps one tree at module level and hands the same Step
\* objects to every caller.
Allocate_Singleton(heap, tree) ==
    [ top   |-> tree.top,
      steps |-> IF heap = <<>> THEN tree.steps ELSE <<>> ]

\* The builder constructs its Step objects anew on every call: they get the
\* next free places of the heap.
Allocate(heap, tree) ==
    LET k == Len(heap)
    IN  [ top   |-> [i \in DOMAIN tree.top |-> tree.top[i] + k],
          steps |-> [j \in DOMAIN tree.steps |->
                        [tree.steps[j] EXCEPT
                            !.substeps = [i \in DOMAIN @ |-> @[i] + k]]] ]

\* The observation extended by k new objects.
ExtendHist(h, k) ==
    LET fresh == NewHist(k)
    IN  [h EXCEPT !.calls = @ \o fresh.calls,
                  !.slept = @ \o fresh.slept,
                  !.outcome = @ \o fresh.outcome,
                  !.draw = @ \o fresh.draw,
                  !.began = @ \o fresh.began,
                  !.ended = @ \o fresh.ended,
                  !.writes = @ \o fresh.writes]

PairInit ==
    /\ variant \in Variants
    /\ request = [i \in PairRequests |-> NoBody]
    /\ step = <<>>
    /\ workflow = [i \in PairRequests |-> NewWorkflow(None, <<>>)]
    /\ gather = <<>>
    /\ hist = NewHist(0)
    /\ response = [i \in PairRequests |->
                      [code |-> 0, status |-> None, error |-> None,
                       message |-> None, valid_types |-> <<>>]]
    /\ now = 0

\* The program state as request i sees it.
PairWorld(i) ==
    [ request |-> request[i], step |-> step, workflow |-> workflow[i],
      gather |-> gather, response |-> response[i], hist |-> hist ]

PairCommit(i, w) ==
    \E v \in {w} :
        /\ request' = [request EXCEPT ![i] = v.request]
        /\ step' = v.step
        /\ workflow' = [workflow EXCEPT ![i] = v.workflow]
        /\ gather' = v.gather
        /\ response' = [response EXCEPT ![i] = v.response]
        /\ hist' = v.hist

\* The Step objects reachable from the workflow of request i.
Reach(i) ==
    UNION {Subtree(workflow[i].steps[j]) : j \in DOMAIN workflow[i].steps}

\* HandleRequest for request i.
PairHandleRequest(i) ==
    /\ workflow[i].pc = "init"
    /\ \E u \in UniformDraws :
          LET args  == HandlerArgs(request[i])
              setup == SetupWorkflow(args.steps, Allocate(step, PairTree))
              w0 == [ request  |-> request[i],
                      step     |-> step \o setup.steps,
                      workflow |-> NewWorkflow(args.name, setup.top),
                      gather   |-> gather \o [j \in DOMAIN setup.steps |->
                                                 [state |-> "none", exc |-> None]],
                      response |-> response[i],
                      hist     |-> ExtendHist(hist, Len(setup.steps)) ]
          IN  PairCommit(i, RunFrom([w0 EXCEPT !.workflow.pc = "running",
                                               !.workflow.start_time =
                                                   IF variant = "medium" THEN now ELSE @],
                                    1, u))
    /\ UNCHANGED <<variant, now>>

\* TaskStart(n) in the run of request i.
PairTaskStart(i, n) ==
    /\ n \in Reach(i)
    /\ step[n].pc = "scheduled"
    /\ \E u \in UniformDraws : PairCommit(i, EnterStep(PairWorld(i), n, u))
    /\ UNCHANGED <<variant, now>>

\* Wake(n) in the run of request i.
PairWake(i, n) ==
    /\ n \in Reach(i)
    /\ step[n].pc = "sleeping"
    /\ step[n].wake <= now
    /\ \E r \in RandomDraws, k \in ChoiceDraws, u \in UniformDraws :
          PairCommit(i, AfterSleep(PairWorld(i), n, r, k, u))
    /\ UNCHANGED <<variant, now>>

\* GatherResume(p) in the run of request i.
PairGatherResume(i, p) ==
    /\ p \in Reach(i)
    /\ step[p].pc = "gather"
    /\ gather[p].state \in {"ok", "exc"}
    /\ \E u \in UniformDraws :
          IF gather[p].state = "ok"
          THEN PairCommit(i, SimulateWork(PairWorld(i), p, u))
          ELSE PairCommit(i, RaiseFrom(StepExcept(PairWorld(i), p, gather[p].exc),
                                       p, gather[p].exc, u))
    /\ UNCHANGED <<variant, now>>

\* Some task can run without the clock moving; a request may arrive at any
\* time.
PairRunnable ==
    \E n \in DOMAIN step :
        \/ step[n].pc = "scheduled"
        \/ step[n].pc = "sleeping" /\ step[n].wake <= now
        \/ step[n].pc = "gather" /\ gather[n].state \in {"ok", "exc"}

PairTick ==
    /\ ~PairRunnable
    /\ \E n \in DOMAIN step : step[n].pc = "sleeping"
    /\ now' = Min({step[n].wake : n \in {m \in DOMAIN step : step[m].pc = "sleeping"}})
    /\ UNCHANGED <<variant, request, step, workflow, gather, response, hist>>

PairNext ==
    \/ \E i \in PairRequests : PairHandleRequest(i)
    \/ \E i \in PairRequests : \E n \in DOMAIN step : PairTaskStart(i, n)
    \/ \E i \in PairRequests : \E n \in DOMAIN step : PairWake(i, n)
    \/ \E i \in PairRequests : \E p \in DOMAIN step : PairGatherResume(i, p)
    \/ PairTick

PairSpec == PairInit /\ [][PairNext]_vars

(***************************************************************************)
(* A caller that keeps the workflow object and calls execute() on it again *)
(* after it has finished                                                   *)
(***************************************************************************)

ReInit ==
    /\ variant \in Variants
    /\ request = BuilderCall(PairTree)
    /\ step = <<>>
    /\ workflow = NewWorkflow(None, <<>>)
    /\ gather = <<>>
    /\ hist = NewHist(0)
    /\ response = [code |-> 0, status |-> None, error |-> None, message |-> None,
                   valid_types |-> <<>>]
    /\ now = 0

\* `await workflow.execute()` on a workflow whose execute() has returned or
\* raised and none of whose tasks is still running.  New coroutines start
\* from the top; neither execute() nor Step.execute() resets a field, so the
\* objects keep what the execution before wrote; only the spans are made
\* anew.  The observation of draws, failures and raises starts anew.
ReExecute ==
    /\ Finished
    /\ \A n \in DOMAIN step : step[n].pc \in {"idle", "returned", "raised"}
    /\ hist.reruns < MaxReruns
    /\ \E u \in UniformDraws :
          LET w0 == [World EXCEPT
                        !.step = [n \in DOMAIN @ |->
                                    [@[n] EXCEPT !.pc = "idle",
                                                 !.span = NewStep(None, None, <<0, 0>>,
                                                                  FALSE, <<>>, NoRate).span]],
                        !.workflow.span = NewWorkflow(None, <<>>).span,
                        !.gather = [n \in DOMAIN @ |->
                                       [state |-> "none", exc |-> None]],
                        !.workflow.pc = "running",
                        !.workflow.start_time =
                            IF variant = "medium" THEN now ELSE @,
                        !.hist.outcome = [n \in DOMAIN @ |-> "none"],
                        !.hist.draw = [n \in DOMAIN @ |-> NoRate],
                        !.hist.raised = <<>>,
                        !.hist.failures = <<>>,
                        !.hist.escaped = None,
                        !.hist.reruns = @ + 1]
          IN  Commit(RunFrom(w0, 1, u))
    /\ UNCHANGED <<variant, now>>

ReNext ==
    \/ Next
    \/ ReExecute

ReSpec == ReInit /\ [][ReNext]_vars

(***************************************************************************)
(* Claims                                                                  *)
(***************************************************************************)

\* C1: when the run's execute() has returned or raised, every Step whose
\* execute() was started has status "completed" or "failed", never None.
C1_StartedStepsTerminal ==
    Finished =>
        \A n \in DOMAIN step :
            Started(n) => step[n].status \in {"completed", "failed"}

\* C2: when the workflow's execute() has returned or raised, the run's own
\* status is "completed" or "failed", never None, in every variant, for an
\* empty step list and for every combination of step outcomes.
C2_RunStatusTerminal ==
    Finished => workflow.status \in {"completed", "failed"}

\* A medium run that returned after two of its steps drew a failure.
C2_Witness ==
    /\ Finished
    /\ variant = "medium"
    /\ workflow.status = "failed"
    /\ Len(hist.failures) >= 2

\* C3: after execute() has finished, the run is "failed" exactly if some
\* Step of the tree drew a failing outcome, and "completed" otherwise; a
\* "completed" run has every Step of its tree "completed".
C3_FailedIffSomeDrawFailed ==
    Finished =>
        /\ workflow.status = "failed"
              <=> \E n \in DOMAIN step : hist.outcome[n] = "failure"
        /\ workflow.status = "completed"
              <=> \A n \in DOMAIN step : hist.outcome[n] # "failure"
        /\ workflow.status = "completed"
              => \A n \in DOMAIN step : step[n].status = "completed"

\* A run that failed because a step below the top level drew a failure.
C3_Witness ==
    /\ Finished
    /\ workflow.status = "failed"
    /\ \E n \in DOMAIN step :
          /\ hist.outcome[n] = "failure"
          /\ Parent(World, n) # 0

\* C4: when a run ends "failed", its error is the message of the first
\* failure of the run, also when several top-level steps fail.
C4_ErrorIsFirstFailure ==
    (Finished /\ workflow.status = "failed")
        => workflow.error = hist.failures[1].msg

\* Every coroutine has left execute() and the endpoint has answered.
AllStopped ==
    /\ Finished \/ workflow.pc = "aborted"
    /\ response.code # 0
    /\ \A n \in DOMAIN step : step[n].pc \in {"idle", "returned", "raised"}

\* C5: under fair scheduling every started step eventually stops running,
\* the run's execute() eventually returns or raises, and the request
\* eventually receives a response.
C5_Terminates == <>[]AllStopped

\* Everything has stopped, and a child of a parallel step that had already
\* failed ran on to its end after the endpoint answered.
C5_Witness ==
    /\ AllStopped
    /\ \E p \in DOMAIN step :
          /\ step[p].parallel
          /\ step[p].pc = "raised"
          /\ \E c \in Children(p) : hist.ended[c] > hist.ended[p]

\* C6: the members of a sequential list (the substeps of a non-parallel
\* step, the workflow's steps) run in list order, and a member is started
\* only after the one before it and all its descendants have resolved: no
\* two of them, or of their subtrees, are in progress at the same time.
C6_SequentialNoOverlap ==
    \A L \in SequentialLists :
        \A i, j \in DOMAIN L :
            (i < j /\ Started(L[j])) =>
                /\ Resolved(L[i])
                /\ hist.ended[L[i]] <= hist.began[L[j]]
                /\ \A m \in Subtree(L[i]) : ~InProgress(m)

\* C7: a step with children starts its own sleep, and draws its own
\* outcome, only after every child has completed; when a child has failed
\* the parent never sleeps and never draws.
C7_OwnWorkAfterChildren ==
    \A p \in DOMAIN step :
        HasSubsteps(p) =>
            /\ (hist.slept[p] \/ hist.outcome[p] # "none") =>
                  \A c \in Children(p) :
                      step[c].pc = "returned" /\ step[c].status = "completed"
            /\ (\E c \in Children(p) : step[c].pc = "raised") =>
                  (~hist.slept[p] /\ hist.outcome[p] = "none")

\* A parallel step drew its own outcome after both children completed,
\* and its own parent, one of whose children raised, never slept.
C7_Witness ==
    \E p, q \in DOMAIN step :
        /\ HasSubsteps(p) /\ step[p].parallel
        /\ hist.outcome[p] # "none"
        /\ HasSubsteps(q)
        /\ \E c \in Children(q) : step[c].pc = "raised"
        /\ step[q].pc = "raised"

\* C8: in the simple and complex variants, once a member of a sequential
\* list (top-level steps, substeps of a non-parallel step) has failed, no
\* later member of that list is ever started; it keeps status None.
C8_HaltAtFirstFailure ==
    variant \in {"simple", "complex"} =>
        \A L \in SequentialLists :
            \A i, j \in DOMAIN L :
                (i < j /\ step[L[i]].pc = "raised") =>
                    /\ ~Started(L[j])
                    /\ step[L[j]].pc = "idle"
                    /\ step[L[j]].status = None

\* A simple or complex run that raised out of its first top-level step
\* while a second one was waiting.
C8_Witness ==
    /\ variant \in {"simple", "complex"}
    /\ workflow.pc = "raised"
    /\ Len(workflow.steps) >= 2
    /\ step[workflow.steps[1]].pc = "raised"
    /\ step[workflow.steps[2]].pc = "idle"

\* C9: in the medium variant every top-level step is executed exactly once
\* whatever the earlier ones did, execute() never raises, and the run is
\* "failed" if one of them raised.
C9_MediumRunsEveryStep ==
    variant = "medium" =>
        /\ workflow.pc # "raised"
        /\ \A i \in DOMAIN workflow.steps : hist.calls[workflow.steps[i]] <= 1
        /\ workflow.pc = "returned" =>
              /\ \A i \in DOMAIN workflow.steps :
                    hist.calls[workflow.steps[i]] = 1
              /\ (\E i \in DOMAIN workflow.steps :
                      step[workflow.steps[i]].pc = "raised")
                    => workflow.status = "failed"

\* A medium run that returned after its first top-level step raised and a
\* later one completed.
C9_Witness ==
    /\ variant = "medium"
    /\ workflow.pc = "returned"
    /\ Len(workflow.steps) >= 2
    /\ step[workflow.steps[1]].pc = "raised"
    /\ step[workflow.steps[2]].status = "completed"

\* C10: the subtrees of two different top-level steps are never in
\* progress at the same time, in any variant.
C10_TopLevelNoOverlap ==
    \A i, j \in DOMAIN workflow.steps :
        i # j => ~(SubtreeInProgress(workflow.steps[i])
                     /\ SubtreeInProgress(workflow.steps[j]))

\* C11: the status of a Step is written exactly once per execution, and only
\* when none of its descendants is still scheduled or running; a parallel
\* parent in particular has no status while a child of it is still running.
C11_StatusWrittenOnceAfterSubtree ==
    \A n \in DOMAIN step :
        /\ hist.writes[n] <= 1
        /\ Resolved(n) => hist.writes[n] = 1
        /\ step[n].status # None =>
              \A m \in Subtree(n) \ {n} :
                  step[m].pc \notin {"scheduled", "substeps", "gather", "sleeping"}

\* C12: there is no cancellation.  A step that sleeps stays asleep until it
\* draws its outcome, and every step that started its sleep eventually has
\* drawn one, also when a sibling under the same parallel parent has failed
\* or the run has already returned or raised.
C12_NoCancellation ==
    /\ [][\A n \in DOMAIN step :
            step[n].pc = "sleeping" =>
                step'[n].pc = "sleeping" \/ hist'.outcome[n] # "none"]_vars
    /\ <>[](\A n \in DOMAIN step : hist.slept[n] => hist.outcome[n] # "none")

\* A child of a parallel step drew its outcome after its sibling's failure
\* had been raised out of the parent and the run had ended.
C12_Witness ==
    /\ Finished
    /\ response.code # 0
    /\ \E p \in DOMAIN step :
          /\ step[p].parallel
          /\ step[p].pc = "raised"
          /\ \E c \in Children(p) :
                /\ hist.outcome[c] # "none"
                /\ hist.ended[c] > hist.ended[p]
                /\ hist.ended[c] > 0

\* The raises out of the children of p, in the order they happened.
ChildRaises(p) ==
    SelectSeq(hist.raised, LAMBDA r : r.step \in Children(p))

\* C13: when children of a parallel step fail, the exception gather raises
\* inside the parent is that of the child whose execute() raised first in
\* time, whatever the children's list order; it is what the parent records
\* as its error and raises on, and what the run records for the parent.
C13_FirstRaisedSurfaces ==
    \A p \in DOMAIN step :
        (step[p].parallel /\ ChildRaises(p) # <<>>) =>
            LET first == ChildRaises(p)[1].msg
            IN  /\ gather[p] = [state |-> "exc", exc |-> first]
                /\ step[p].pc = "raised" =>
                      /\ step[p].error \in {None, first}
                      /\ variant # "complex" => step[p].error = first
                      /\ \E i \in DOMAIN hist.raised :
                            hist.raised[i] = [step |-> p, msg |-> first]
                      /\ (IsIn(p, workflow.steps) /\ variant # "medium") =>
                            workflow.error = first
                      /\ (IsIn(p, workflow.steps) /\ variant = "medium") =>
                            workflow.execution_details[step[p].name].error = first

\* Both children of a parallel step failed, the one listed second first, and
\* the parent carries the message of that one, which is not the message of
\* the child listed first.
C13_Witness ==
    \E p \in DOMAIN step :
        /\ step[p].parallel
        /\ Len(step[p].substeps) = 2
        /\ Len(ChildRaises(p)) = 2
        /\ ChildRaises(p)[1].step = step[p].substeps[2]
        /\ step[p].pc = "raised"
        /\ step[p].error = ChildRaises(p)[1].msg
        /\ step[p].error # ChildRaises(p)[2].msg

\* C14: the children of a parallel step sleep at the same time.  They all
\* start at the instant their parent started, a child without substeps
\* resolves its drawn duration later, and once all have resolved the time
\* from the first start to the last resolution is the largest of the
\* children's own resolution times, not their sum.
C14_ParallelOverlap ==
    \A p \in DOMAIN step :
        (step[p].parallel /\ HasSubsteps(p)) =>
            /\ \A c \in Children(p) :
                  /\ Started(c) => hist.began[c] = hist.began[p]
                  /\ (Resolved(c) /\ ~HasSubsteps(c)) =>
                        hist.ended[c] = hist.began[c] + step[c].drawn
            /\ (\A c \in Children(p) : Resolved(c)) =>
                  Max({hist.ended[c] : c \in Children(p)})
                    - Min({hist.began[c] : c \in Children(p)})
                  = Max({hist.ended[c] - hist.began[c] : c \in Children(p)})

\* Two children of a parallel step slept one tick or more each and both
\* resolved in less than the sum of their durations after the first start.
C14_Witness ==
    \E p \in DOMAIN step :
        /\ step[p].parallel
        /\ Len(step[p].substeps) = 2
        /\ \A c \in Children(p) :
              Resolved(c) /\ ~HasSubsteps(c) /\ step[c].drawn >= 1
        /\ Max({hist.ended[c] : c \in Children(p)}) - hist.began[p]
              < step[step[p].substeps[1]].drawn + step[step[p].substeps[2]].drawn

RECURSIVE KindsValid(_)
\* Every node of the configurations, at any depth, has a kind of
\* OperationType.
KindsValid(configs) ==
    \A i \in DOMAIN configs :
        /\ IsIn(configs[i].operation_type, OperationTypes)
        /\ KindsValid(configs[i].substeps)

\* The request carries a non-empty `steps` list.
SuppliesSteps == request.present /\ request.has_steps /\ request.steps # <<>>

RECURSIVE Matches(_, _)
\* Step n and its subtree have the shape, names, kinds, duration ranges and
\* parallel flags of config.
Matches(n, config) ==
    /\ step[n].name = config.name
    /\ step[n].operation_type = config.operation_type
    /\ step[n].duration_range = config.duration_range
    /\ step[n].parallel = config.parallel
    /\ Len(step[n].substeps) = Len(config.substeps)
    /\ \A i \in DOMAIN config.substeps :
          Matches(step[n].substeps[i], config.substeps[i])

\* C15: a request whose body carries a non-empty `steps` list of well-formed
\* configurations, all kinds valid, makes the endpoint build the Step tree
\* of that shape, with those names, kinds, duration ranges and parallel
\* flags, and execute it: not the default tree, and no construction error.
C15_CustomTreeBuiltAndRun ==
    (hist.setup.done /\ SuppliesSteps /\ KindsValid(request.steps)) =>
        /\ hist.setup.exc = NoExc
        /\ ~hist.setup.used_default
        /\ Len(workflow.steps) = Len(request.steps)
        /\ \A i \in DOMAIN request.steps :
              Matches(workflow.steps[i], request.steps[i])
        /\ workflow.pc # "aborted"
        /\ Started(workflow.steps[1])

\* The request carries no `steps`: it has no body, or a body without the key.
CarriesNoSteps == ~request.present \/ ~request.has_steps

\* The steps of the run are those of the built-in default tree.
DefaultExecuted == hist.setup.used_default /\ workflow.pc # "aborted"

\* C16: the built-in default tree is executed exactly when the request
\* carries no `steps`; a request that supplies `steps`, the empty list
\* included, never runs the default tree.
C16_DefaultIffNoSteps ==
    hist.setup.done => (DefaultExecuted <=> CarriesNoSteps)

RECURSIVE KindsOf(_)
\* The kinds that occur in the configurations, at any depth.
KindsOf(configs) ==
    UNION {{configs[i].operation_type} \cup KindsOf(configs[i].substeps) :
              i \in DOMAIN configs}

\* C17: building the tree from supplied configurations of which some node,
\* at any depth, has a kind outside OperationType fails with an HTTPException
\* of status 400 whose detail names the offending kind and lists all valid
\* kinds, and with no other exception.
C17_InvalidKindIsBadRequest ==
    (hist.setup.done /\ SuppliesSteps /\ ~KindsValid(request.steps)) =>
        /\ hist.setup.exc.type = "HTTPException"
        /\ hist.setup.exc.status_code = 400
        /\ \E kind \in KindsOf(request.steps) :
              /\ ~IsIn(kind, OperationTypes)
              /\ hist.setup.exc.message = "Invalid operation type: " \o kind
        /\ hist.setup.exc.valid_types = OperationTypes

\* Every Step the workflow's lists lead to exists, and a tree built from the
\* request's configurations matches them node by node.
TreeConstructed ==
    /\ hist.setup.done
    /\ hist.setup.exc = NoExc
    /\ \A i \in DOMAIN workflow.steps : Subtree(workflow.steps[i]) \subseteq DOMAIN step
    /\ ~hist.setup.used_default =>
          /\ Len(workflow.steps) = Len(request.steps)
          /\ \A i \in DOMAIN request.steps :
                Matches(workflow.steps[i], request.steps[i])

\* C18: configuration errors are raised at construction, never at execution
\* time.  In every variant a Step starts executing only if the whole tree of
\* the request was constructed without an exception, and after an exception
\* of the construction execute() is never entered.
C18_NoExecutionBeforeConstruction ==
    /\ (\E n \in DOMAIN step : Started(n)) => TreeConstructed
    /\ workflow.pc \in {"running", "returned", "raised"} => TreeConstructed
    /\ (hist.setup.done /\ hist.setup.exc # NoExc) => workflow.pc = "aborted"

\* The construction from a configuration with an invalid kind raised, the
\* endpoint answered, and no Step was executed.
C18_Witness ==
    /\ SuppliesSteps
    /\ ~KindsValid(request.steps)
    /\ hist.setup.done
    /\ hist.setup.exc # NoExc
    /\ workflow.pc = "aborted"
    /\ response.code # 0
    /\ \A n \in DOMAIN step : ~Started(n)

\* C19: on every HTTP 200 response of the three endpoints the returned
\* status is the terminal status of the run, "completed" or "failed", and
\* the returned error is the run's error message or null.
C19_ResponseMirrorsRun ==
    response.code = 200 =>
        /\ response.status \in {"completed", "failed"}
        /\ response.status = workflow.status
        /\ response.error = workflow.error

\* C19 as the code has it: the simple and medium endpoints answer 200 with
\* the status and error of the run; the complex endpoint always answers
\* "completed", with no error when the run completed and otherwise with the
\* text of the exception after "Error handled for demo: ".
C19_ResponseMirrorsRunExceptComplex ==
    response.code = 200 =>
        IF variant = "complex"
        THEN /\ response.status = "completed"
             /\ workflow.status = "completed" => response.error = None
             /\ workflow.status = "failed" =>
                   response.error = "Error handled for demo: " \o workflow.error
             /\ workflow.pc = "aborted" =>
                   response.error = "Error handled for demo: " \o hist.setup.exc.msg
        ELSE /\ response.status \in {"completed", "failed"}
             /\ response.status = workflow.status
             /\ response.error = workflow.error

\* The complex endpoint answered 200 "completed" for a run that failed.
C19_Witness ==
    /\ response.code = 200
    /\ workflow.status = "failed"
    /\ workflow.pc = "raised"
    /\ variant = "complex"
    /\ response.status = "completed"
    /\ response.error # None

\* An exception left execute_*_workflow and reached the endpoint function:
\* the setup or execute() raised, and the run function has no `except` of
\* its own (execute_medium_workflow has one, and its execute() does not
\* raise on a failed step).
RaisedToEndpoint ==
    /\ variant # "medium"
    /\ workflow.pc \in {"raised", "aborted"}

\* str() of that exception.
RaisedText ==
    IF workflow.pc = "aborted" THEN hist.setup.exc.msg ELSE workflow.error

\* C20: when the setup of the tree or its execution raises an error the run
\* does not handle, each of the three endpoints answers with an error status
\* code and a body that holds `message` and `error`, never with a 200.
C20_UnhandledErrorIsErrorResponse ==
    (RaisedToEndpoint /\ response.code # 0) =>
        /\ response.code >= 400
        /\ response.message # None
        /\ response.error = RaisedText

\* C20 as the code has it: the simple endpoint answers such an error with
\* status 500 and a body of `message` and `error`; no error reaches the
\* medium endpoint, which answers 200; the complex endpoint catches the
\* error and answers 200 "completed" with the error text after "Error
\* handled for demo: ".
C20_UnhandledErrorSimple500Complex200 ==
    /\ (RaisedToEndpoint /\ response.code # 0) =>
          IF variant = "complex"
          THEN /\ response.code = 200
               /\ response.status = "completed"
               /\ response.error = "Error handled for demo: " \o RaisedText
          ELSE /\ response.code = 500
               /\ response.message = "Simple workflow execution failed"
               /\ response.error = RaisedText
    /\ variant = "medium" => response.code \in {0, 200}

\* A simple run raised out of execute() and the endpoint answered 500 with
\* the message of the failure.
C20_Witness ==
    /\ variant = "simple"
    /\ workflow.pc = "raised"
    /\ response.code = 500
    /\ response.message # None
    /\ response.error = workflow.error
    /\ response.error # None

\* C21: the complex endpoint always answers HTTP 200 with status
\* "completed", whatever the body and whatever the construction and the
\* execution did: once the run is over or its setup has raised, the answer
\* is 200 "completed", with error null when no exception occurred and
\* otherwise "Error handled for demo: " followed by the exception text.
C21_ComplexAlwaysCompleted ==
    variant = "complex" =>
        /\ response.code \in {0, 200}
        /\ workflow.pc \in {"returned", "raised", "aborted"} =>
              /\ response.code = 200
              /\ response.status = "completed"
        /\ workflow.pc = "returned" => response.error = None
        /\ workflow.pc \in {"raised", "aborted"} =>
              /\ RaisedText # None
              /\ response.error = "Error handled for demo: " \o RaisedText

\* The construction of a complex request raised before any Step ran, and the
\* endpoint answered 200 "completed" with the text of that exception.
C21_Witness ==
    /\ variant = "complex"
    /\ workflow.pc = "aborted"
    /\ hist.setup.exc # NoExc
    /\ response.code = 200
    /\ response.status = "completed"
    /\ response.error = "Error handled for demo: 'dict' object has no attribute 'name'"

\* C22: in every variant an error of the setup or of the execution is caught
\* inside execute_*_workflow and comes back as a run with status "failed"
\* and an error message: no exception leaves execute_*_workflow.
C22_RunBoundaryCatchesAll ==
    /\ hist.escaped = None
    /\ workflow.pc \in {"raised", "aborted"} =>
          /\ workflow.status = "failed"
          /\ workflow.error # None

\* C22 as the code has it: only execute_medium_workflow has an `except`; it
\* turns an error of the setup into a returned run with status "failed" and
\* error "Workflow initialization failed: " followed by the exception text.
\* execute_simple_workflow and execute_workflow have none: an error of the
\* setup or the exception of a failed run leaves them and reaches the
\* endpoint function.
C22_OnlyMediumCatchesAtRunBoundary ==
    /\ variant = "medium" =>
          /\ hist.escaped = None
          /\ workflow.pc # "raised"
          /\ workflow.pc = "aborted" =>
                /\ workflow.status = "failed"
                /\ workflow.error =
                      "Workflow initialization failed: " \o hist.setup.exc.msg
                /\ response.code = 200
                /\ response.status = "failed"
    /\ variant # "medium" =>
          /\ workflow.pc \in {"raised", "aborted"} => hist.escaped = RaisedText
          /\ workflow.pc = "aborted" => workflow.status = None
          /\ hist.escaped # None => workflow.pc \in {"raised", "aborted"}

\* The setup of a medium request raised and execute_medium_workflow returned
\* a failed run that carries the exception text.
C22_Witness ==
    /\ variant = "medium"
    /\ workflow.pc = "aborted"
    /\ hist.setup.exc.type = "AttributeError"
    /\ hist.escaped = None
    /\ workflow.status = "failed"
    /\ workflow.error # None

\* The step drew its outcome.
HasDrawn(n) == hist.draw[n] # NoRate

\* C23: in the simple and complex variants a step that reached its draw (all
\* of its children completed) ends "completed" if and only if the draw is
\* strictly less than the success probability of its kind: database 0.95,
\* http 0.85, queue 0.90, cache 0.98, processing 0.92, validation 0.88,
\* transformation 0.93, export 0.94, any other kind 0.90.  Otherwise it ends
\* "failed" and raises.
C23_CompletedIffDrawBelowKindRate ==
    variant \in {"simple", "complex"} =>
        \A n \in DOMAIN step :
            HasDrawn(n) =>
                LET kind == step[n].operation_type
                    p == CASE kind = "database"       -> 95
                           [] kind = "http"           -> 85
                           [] kind = "queue"          -> 90
                           [] kind = "cache"          -> 98
                           [] kind = "processing"     -> 92
                           [] kind = "validation"     -> 88
                           [] kind = "transformation" -> 93
                           [] kind = "export"         -> 94
                           [] OTHER                   -> 90
                IN  /\ \A c \in Children(n) : step[c].status = "completed"
                    /\ step[n].status = "completed" <=> hist.draw[n] < p
                    /\ hist.draw[n] < p => step[n].pc = "returned"
                    /\ hist.draw[n] >= p =>
                          /\ step[n].status = "failed"
                          /\ step[n].pc = "raised"
                          /\ \E i \in DOMAIN hist.raised : hist.raised[i].step = n

\* An http step of the simple variant drew exactly 0.85 and failed, and a
\* step of a kind outside the table drew 0.89 and completed.
C23_Witness ==
    /\ variant = "simple"
    /\ \E n \in DOMAIN step :
          \/ /\ step[n].operation_type = "http"
             /\ hist.draw[n] = 85
             /\ step[n].status = "failed"
          \/ /\ step[n].operation_type = "graphql"
             /\ hist.draw[n] = 89
             /\ step[n].status = "completed"

\* C24: a MediumStep constructed with an explicit success_rate p uses p in
\* place of the table value of its kind: for every p from 0 to 1, p = 0
\* included, the step ends "completed" if and only if its draw is strictly
\* less than p.
C24_ExplicitRateDecides ==
    variant = "medium" =>
        \A n \in DOMAIN step :
            (HasDrawn(n) /\ step[n].success_rate # NoRate) =>
                (step[n].status = "completed" <=> hist.draw[n] < step[n].success_rate)

\* C25: the error of a step whose own draw failed is one of the three
\* curated messages of its kind when the kind is database, http, queue or
\* cache, and exactly "<Kind> operation failed", the kind title-cased, for
\* every other kind; the exception raised to the parent carries the same
\* text.
C25_FailureMessageOfKind ==
    \A n \in DOMAIN step :
        hist.outcome[n] = "failure" =>
            LET kind == step[n].operation_type
                e == step[n].error
            IN  /\ CASE kind = "database" ->
                          e \in {"Database connection timeout", "Deadlock detected",
                                 "Unique constraint violation"}
                     [] kind = "http" ->
                          e \in {"API rate limit exceeded",
                                 "External service unavailable",
                                 "Invalid response format"}
                     [] kind = "queue" ->
                          e \in {"Queue full", "Message processing timeout",
                                 "Consumer disconnected"}
                     [] kind = "cache" ->
                          e \in {"Cache eviction", "Key not found",
                                 "Cache server unreachable"}
                     [] kind = "processing" -> e = "Processing operation failed"
                     [] kind = "validation" -> e = "Validation operation failed"
                     [] kind = "transformation" ->
                          e = "Transformation operation failed"
                     [] kind = "export" -> e = "Export operation failed"
                     [] kind = "graphql" -> e = "Graphql operation failed"
                /\ \E i \in DOMAIN hist.raised :
                      hist.raised[i] = [step |-> n, msg |-> e]

\* A transformation step failed with the title-cased fallback message and a
\* queue step failed with the third curated message of its kind.
C25_Witness ==
    \E n \in DOMAIN step :
        /\ hist.outcome[n] = "failure"
        /\ step[n].pc = "raised"
        /\ \/ /\ step[n].operation_type = "transformation"
              /\ step[n].error = "Transformation operation failed"
           \/ /\ step[n].operation_type = "queue"
              /\ step[n].error = "Consumer disconnected"

\* The attributes _handle_failure records: the message and the kind in the
\* Step's attributes (medium), the message on the Step's span (complex).
FailureAttributes(n) ==
    IF variant = "complex"
    THEN /\ "step.error" \in DOMAIN step[n].span.attrs
         /\ step[n].span.attrs["step.error"] = step[n].error
         /\ step[n].span.attrs["step.status"] = "failed"
    ELSE /\ {"error_message", "error_type"} \subseteq DOMAIN step[n].attributes
         /\ step[n].attributes["error_message"] = step[n].error
         /\ step[n].attributes["error_type"] = step[n].operation_type

\* The attributes _handle_success records.
SuccessAttributes(n) ==
    IF variant = "complex"
    THEN /\ "step.status" \in DOMAIN step[n].span.attrs
         /\ step[n].span.attrs["step.status"] = "completed"
    ELSE /\ {"duration", "operation_success"} \subseteq DOMAIN step[n].attributes
         /\ step[n].attributes["operation_success"] = "true"

\* C26: a step whose own draw fails records the error message and the error
\* kind as attributes, sets its status to "failed" and its error to the
\* message and raises to its parent; a step that succeeds is marked
\* "completed" and gets the duration and success attributes.  After a run
\* every step with status "failed" carries the failure attributes and every
\* step with status "completed" the success attributes.
C26_StatusCarriesAttributes ==
    /\ \A n \in DOMAIN step :
          /\ hist.outcome[n] = "failure" =>
                /\ step[n].status = "failed"
                /\ step[n].error # None
                /\ FailureAttributes(n)
                /\ step[n].pc = "raised"
          /\ hist.outcome[n] = "success" =>
                /\ step[n].status = "completed"
                /\ SuccessAttributes(n)
    /\ Finished =>
          \A n \in DOMAIN step :
              /\ step[n].status = "failed" => FailureAttributes(n)
              /\ step[n].status = "completed" => SuccessAttributes(n)

\* C26 as the code has it: the attributes follow the step's own draw, not
\* its status.  In the medium and complex variants a step whose own draw
\* fails gets status "failed", its error and the failure attributes (in its
\* attribute map in medium, on its span in complex) and raises; a step whose
\* draw succeeds gets "completed" and the success attributes, and only such
\* steps are "completed".  A medium step that is "failed" because a child
\* failed has its status and error but none of the failure attributes, and
\* the simple variant records no attributes at all (nor does the complex
\* one in the Step's attribute map).
C26_OwnDrawCarriesAttributes ==
    \A n \in DOMAIN step :
        /\ variant # "simple" =>
              /\ hist.outcome[n] = "failure" =>
                    /\ step[n].status = "failed"
                    /\ step[n].error # None
                    /\ FailureAttributes(n)
                    /\ step[n].pc = "raised"
              /\ hist.outcome[n] = "success" =>
                    /\ step[n].status = "completed"
                    /\ SuccessAttributes(n)
        /\ step[n].status = "completed" => hist.outcome[n] = "success"
        /\ (variant = "medium" /\ step[n].status = "failed"
              /\ hist.outcome[n] # "failure") =>
              /\ step[n].error # None
              /\ DOMAIN step[n].attributes = {}
        /\ variant # "medium" => DOMAIN step[n].attributes = {}

\* A medium run is over in which a child failed by its own draw and carries
\* the failure attributes, while its parent is "failed" with the same error
\* and has no attributes.
C26_Witness ==
    /\ variant = "medium"
    /\ Finished
    /\ \E p \in DOMAIN step : \E c \in Children(p) :
          /\ hist.outcome[c] = "failure"
          /\ FailureAttributes(c)
          /\ step[p].status = "failed"
          /\ step[p].error = step[c].error
          /\ DOMAIN step[p].attributes = {}

\* C27: in every state of a run, for every Step and for the run object, an
\* error that is not null implies status "failed": no object whose status is
\* unset or "completed" has an error.
C27_ErrorImpliesFailed ==
    /\ \A n \in DOMAIN step : step[n].error # None => step[n].status = "failed"
    /\ workflow.error # None => workflow.status = "failed"

\* A parent got its error from a child in the `except` of execute() and the
\* run object got it from the parent; both are "failed".
C27_Witness ==
    /\ workflow.error # None
    /\ workflow.status = "failed"
    /\ \E p \in DOMAIN step :
          /\ HasSubsteps(p)
          /\ hist.outcome[p] = "none"
          /\ step[p].error # None
          /\ step[p].status = "failed"

\* The fields of Step n that execute() and its helpers assign.
StepFields(s) ==
    << s.status, s.error, s.attributes, s.start_time, s.end_time, s.duration,
       s.span >>

\* C28: executing a step writes only that step's own fields.  No step is
\* written unless its own execute() is running or is entered in the same
\* stretch of code, and the StepConfig objects the tree was built from,
\* their attributes mappings included, stay as the caller handed them in.
C28_WritesOnlyOwnFields ==
    /\ [](request \in DirectRequests)
    /\ [][\A m \in DOMAIN step :
            (m \in DOMAIN step' /\ StepFields(step'[m]) # StepFields(step[m])) =>
                \/ InProgress(m)
                \/ hist'.calls[m] > hist.calls[m]]_vars

\* The objects of request i: its run, its answer and the Steps of its tree
\* after the step.
Objects(i) == <<workflow[i], response[i], [n \in Reach(i) |-> step[n]]>>

\* C29: each request builds its own fresh Step tree and executes each Step
\* of it at most once; no Step object belongs to two subtrees or to the
\* trees of two requests, so of two requests handled concurrently neither
\* writes the steps, the run or the answer of the other.
C29_RequestsShareNoStep ==
    /\ [](/\ \A n \in DOMAIN step : hist.calls[n] <= 1
          /\ Reach(1) \cap Reach(2) = {}
          /\ \A i \in PairRequests :
                /\ \A n \in Reach(i) :
                      Cardinality({p \in DOMAIN step : IsIn(n, step[p].substeps)})
                        + Cardinality({j \in DOMAIN workflow[i].steps :
                                          workflow[i].steps[j] = n}) = 1
                /\ \A p \in DOMAIN step : \A j, k \in DOMAIN step[p].substeps :
                      step[p].substeps[j] = step[p].substeps[k] => j = k)
    /\ [][\A i \in PairRequests :
            (workflow[i].pc # "init" /\ Objects(i)' # Objects(i)) =>
                \A j \in PairRequests \ {i} :
                    workflow[j].pc # "init" => Objects(j)' = Objects(j)]_vars

\* Both requests are being handled at the same time, each with a tree of its
\* own in which a step has been executed, and one of them has already been
\* answered while the other is still running.
C29_Witness ==
    /\ Reach(1) # {} /\ Reach(2) # {}
    /\ Reach(1) \cap Reach(2) = {}
    /\ \E n \in Reach(1) : hist.outcome[n] # "none"
    /\ \E n \in Reach(2) : hist.outcome[n] # "none"
    /\ \E i, j \in PairRequests :
          /\ response[i].code # 0
          /\ workflow[j].pc = "running"

\* C30: executing a tree or a workflow object that was executed before is
\* either not possible or gives an outcome that depends on the new draws
\* only: when every step succeeds in the second execution the workflow ends
\* "completed" with no error and every step is "completed" with no error,
\* whatever the first execution left behind.
C30_ReExecutionIsFresh ==
    (/\ hist.reruns > 0
     /\ Finished
     /\ \A n \in DOMAIN step : hist.outcome[n] = "success") =>
        /\ workflow.status = "completed"
        /\ workflow.error = None
        /\ \A n \in DOMAIN step :
              /\ step[n].status = "completed"
              /\ step[n].error = None

(***************************************************************************)
(* duration_range of constructed steps                                     *)
(***************************************************************************)

ValidRange(range) == 0 <= range[1] /\ range[1] <= range[2]

\* C31: every Step constructed from a StepConfig has a duration_range
\* (min, max) with 0 <= min <= max, so a configuration with a negative bound
\* or with min > max never becomes a Step, let alone one that is executed.
C31_ConstructedRangeValid ==
    \A n \in DOMAIN step : ValidRange(step[n].duration_range)

(***************************************************************************)
(* Propagation of a failure message up the call chain                      *)
(***************************************************************************)

\* The steps whose execute() is on the call chain above step n.
Ancestors(n) == {a \in DOMAIN step : a # n /\ n \in Subtree(a)}

\* The message chosen by _handle_failure of step n.
FailureMessage(n) ==
    hist.failures[CHOOSE i \in DOMAIN hist.failures : hist.failures[i].step = n].msg

\* The exceptions raised out of the top-level steps into the run's execute(),
\* in the order they were raised.
ReachedRun ==
    SelectSeq(hist.raised, LAMBDA r : IsIn(r.step, workflow.steps))

\* C32: in the simple and medium variants, when the own draw of a step
\* fails, every ancestor of the step that has left execute() is "failed"
\* with the failing step's message as its error, and when the exception of
\* the step's top-level ancestor (or of the step itself) is the last one to
\* reach the run, the run's error is that same message with no prefix.
C32_MessagePropagatesVerbatim ==
    variant \in {"simple", "medium"} =>
        \A n \in DOMAIN step :
            hist.outcome[n] = "failure" =>
                /\ \A a \in Ancestors(n) :
                      step[a].pc \in {"returned", "raised"} =>
                          /\ step[a].status = "failed"
                          /\ step[a].error = FailureMessage(n)
                /\ ( /\ Finished
                     /\ ReachedRun # <<>>
                     /\ ReachedRun[Len(ReachedRun)].step \in Ancestors(n) \cup {n} )
                       => workflow.error = FailureMessage(n)

(***************************************************************************)
(* What the simple and complex run functions hand to their endpoints       *)
(***************************************************************************)

\* C33: execute_simple_workflow and execute_workflow never return a workflow
\* whose status is "failed": whenever a step has failed the run's execute()
\* raises.  So a 200 answer of /workflow/simple has status "completed" and
\* no error, and a failed simple run is answered with 500 and a detail whose
\* error is the run's failure message, the message of a failed step.
C33_SimpleRaisesInsteadOfReturningFailed ==
    /\ variant \in {"simple", "complex"} =>
          /\ workflow.pc = "returned" => workflow.status = "completed"
          /\ (Finished /\ hist.failures # <<>>) => workflow.pc = "raised"
    /\ variant = "simple" =>
          /\ response.code = 200 =>
                /\ response.status = "completed"
                /\ response.error = None
                /\ workflow.status = "completed"
          /\ (workflow.status = "failed" /\ response.code # 0) =>
                /\ response.code = 500
                /\ response.error = workflow.error
                /\ \E i \in DOMAIN hist.failures :
                      hist.failures[i].msg = response.error

\* A simple run in which a step failed has been answered.
C33_Witness ==
    /\ variant = "simple"
    /\ workflow.status = "failed"
    /\ hist.failures # <<>>
    /\ response.code = 500

(***************************************************************************)
(* Sequential children inside a step                                       *)
(***************************************************************************)

\* C34: in every variant, the medium one included, once a sequential child
\* of a step has raised, the children after it in that step's list are never
\* started and keep status None: the medium variant goes on after a failure
\* only in the list of top-level steps.
C34_StepHaltsAtFirstFailedChild ==
    \A p \in DOMAIN step :
        (HasSubsteps(p) /\ ~step[p].parallel) =>
            \A i, j \in DOMAIN step[p].substeps :
                (i < j /\ step[step[p].substeps[i]].pc = "raised") =>
                    /\ ~Started(step[p].substeps[j])
                    /\ step[step[p].substeps[j]].pc = "idle"
                    /\ step[step[p].substeps[j]].status = None

\* A medium run went on to its second top-level step after the first one,
\* a sequential step, failed at its first child and left its second child
\* unstarted.
C34_Witness ==
    /\ variant = "medium"
    /\ Finished
    /\ \E p \in DOMAIN step :
          /\ IsIn(p, workflow.steps)
          /\ HasSubsteps(p) /\ ~step[p].parallel
          /\ Len(step[p].substeps) >= 2
          /\ step[step[p].substeps[1]].pc = "raised"
          /\ ~Started(step[p].substeps[2])
          /\ \E q \in DOMAIN step :
                /\ IsIn(q, workflow.steps)
                /\ q # p
                /\ hist.began[q] >= hist.ended[p]
                /\ Started(q)

(***************************************************************************)
(* Children that outlive the failure of their parallel parent              *)
(***************************************************************************)

\* The task of step x runs in this step of the program: it is started, its
\* sleep is over, or the gather it awaits has been resolved.
Acts(x) ==
    /\ step[x].pc \in {"scheduled", "sleeping", "gather"}
    /\ step'[x].pc # step[x].pc

\* Nothing outside the subtree of step c is written: the status and error of
\* every other step, the run, what the caller receives and the endpoint's
\* answer stay as they are.
OnlyWithin(c) ==
    /\ \A a \in DOMAIN step \ Subtree(c) :
          /\ step'[a].status = step[a].status
          /\ step'[a].error = step[a].error
    /\ workflow'.status = workflow.status
    /\ workflow'.error = workflow.error
    /\ workflow'.pc = workflow.pc
    /\ hist'.escaped = hist.escaped
    /\ response' = response

\* C35: once gather has raised the first child failure into a parallel step,
\* whatever a sibling that is still running does afterwards (it or one of
\* its descendants completes or fails) changes status and error only inside
\* that sibling's subtree: the parent, its ancestors and the run keep their
\* status and error, and nothing is raised into the caller.
C35_LateSiblingOutcomeIsLocal ==
    [][ \A p \in DOMAIN step :
            (step[p].parallel /\ gather[p].state = "exc") =>
                \A c \in Children(p) :
                    \A x \in Subtree(c) :
                        Acts(x) => (OnlyWithin(c) /\ gather'[p] = gather[p]) ]_vars

\* A child of a parallel step failed after its parent had already failed
\* with the message of another child.
C35_Witness ==
    \E p \in DOMAIN step :
        /\ step[p].parallel
        /\ step[p].pc = "raised"
        /\ \E c \in Children(p) :
              /\ step[c].pc = "raised"
              /\ hist.ended[c] > hist.ended[p]
              /\ step[c].status = "failed"
              /\ step[c].error # step[p].error

(***************************************************************************)
(* execution_details of a medium run                                       *)
(***************************************************************************)

\* C36: after MediumWorkflowSimulator.execute() has returned,
\* execution_details holds one entry for each top-level step, under the
\* step's name and with the step's final status, and one more entry
\* "total_duration": as many entries as there are top-level steps plus one,
\* whatever the names of the steps are.
C36_OneDetailPerTopLevelStep ==
    (variant = "medium" /\ Finished) =>
        /\ "total_duration" \in DOMAIN workflow.execution_details
        /\ Cardinality(DOMAIN workflow.execution_details)
              = Len(workflow.steps) + 1
        /\ \A i \in DOMAIN workflow.steps :
              LET s == step[workflow.steps[i]]
              IN  /\ s.name \in DOMAIN workflow.execution_details
                  /\ workflow.execution_details[s.name].status = s.status

====
